---- MODULE Spec2Model ----
(***************************************************************************)
(* Three-party smart-meter billing (meter, customer, provider) of          *)
(* project-billing: src/src/billing/three_party.rs with the shared price   *)
(* distribution of src/src/billing/common.rs.                              *)
(*                                                                         *)
(* Wire data are byte sequences (sequences of 0..255), written and parsed  *)
(* as the code writes and parses them.  The machine integers are scaled:   *)
(* i32 is modelled I32_BITS wide and i64 twice as wide, so that the        *)
(* accumulators overflow at the same number of maximal rows as in the      *)
(* code (a product of two i32 always fits an i64, three of them do not),   *)
(* and the week of 24*7 hour buckets is scaled to PRICES_LEN buckets (an   *)
(* hour is still a u8, so hours past the table exist as they do in the     *)
(* code).                                                                  *)
(* The signature and commitment primitives of proj_crypto are not part of  *)
(* the repository; they are modelled by the algebra the specification      *)
(* states for them.                                                        *)
(***************************************************************************)
EXTENDS Integers, Sequences, FiniteSets, TLC

(***************************************************************************)
(* Bounds of the model                                                     *)
(***************************************************************************)
I32_BITS == 5
PRICES_LEN == 3
MaxReadings == 3
MaxBuffered == 2
MaxBlobs == 2
MaxProofs == 1
MaxTicks == 2
MaxSomReadings == 2
MaxTimeouts == 1
MaxCalls == 3

(***************************************************************************)
(* Machine integers                                                        *)
(***************************************************************************)
I64_BITS == 2 * I32_BITS
I32_MAX == 2^(I32_BITS - 1) - 1
I32_MIN == -(2^(I32_BITS - 1))
I64_MAX == 2^(I64_BITS - 1) - 1
I64_MIN == -(2^(I64_BITS - 1))
U8_MAX == 2^8 - 1
USIZE_MAX == 2^(I64_BITS) - 1

InI64(n) == n >= I64_MIN /\ n <= I64_MAX

\* two's complement wrap-around of a 64-bit result (release build)
Wrap64(n) == ((n - I64_MIN) % 2^I64_BITS) + I64_MIN

\* hours of a week: the length of a price table (24*7 in the code)
HOURS == PRICES_LEN
Hours == 0 .. (HOURS - 1)

(***************************************************************************)
(* Text: format!("{}"), to_str_radix, from_str_radix, split_whitespace     *)
(***************************************************************************)
NL == 10
SP == 32

DigitChar(d) == IF d < 10 THEN 48 + d ELSE 87 + d

RECURSIVE NatToRadix(_, _)
NatToRadix(n, r) ==
    IF n < r THEN << DigitChar(n) >>
    ELSE NatToRadix(n \div r, r) \o << DigitChar(n % r) >>

\* format!("{}", n) for r = 10, Mpz::to_str_radix(16) for r = 16
IntToStr(n, r) ==
    IF n < 0 THEN << 45 >> \o NatToRadix(-n, r) ELSE NatToRadix(n, r)

DigitVal(c) ==
    IF c >= 48 /\ c <= 57 THEN c - 48
    ELSE IF c >= 97 /\ c <= 122 THEN c - 87
    ELSE IF c >= 65 /\ c <= 90 THEN c - 55
    ELSE -1

IsDigits(s, r) ==
    /\ Len(s) >= 1
    /\ \A i \in 1 .. Len(s) : DigitVal(s[i]) >= 0 /\ DigitVal(s[i]) < r

RECURSIVE DigitsToNat(_, _)
DigitsToNat(s, r) ==
    IF Len(s) = 0 THEN 0
    ELSE DigitsToNat(SubSeq(s, 1, Len(s) - 1), r) * r + DigitVal(s[Len(s)])

\* iN::from_str_radix / uN::from_str_radix: an optional sign, then digits;
\* Err on an empty string, a lone sign, a bad digit or a value out of range
FromStrRadix(s, r, lo, hi, signed) ==
    LET InRange(v) ==
            IF v < lo \/ v > hi THEN [ok |-> FALSE, val |-> 0]
            ELSE [ok |-> TRUE, val |-> v]
        Parsed(neg, body) ==
            IF ~IsDigits(body, r) THEN [ok |-> FALSE, val |-> 0]
            ELSE InRange(IF neg THEN -DigitsToNat(body, r) ELSE DigitsToNat(body, r))
        Signed(neg, pos) == Parsed(neg, IF neg \/ pos THEN Tail(s) ELSE s)
    IN  Signed(Len(s) >= 1 /\ s[1] = 45 /\ signed, Len(s) >= 1 /\ s[1] = 43)

\* Mpz::from_str_radix: arbitrary precision, an optional minus sign
MpzFromStrRadix(s, r) ==
    LET Parsed(neg, body) ==
            IF ~IsDigits(body, r) THEN [ok |-> FALSE, val |-> 0]
            ELSE [ok |-> TRUE,
                  val |-> IF neg THEN -DigitsToNat(body, r) ELSE DigitsToNat(body, r)]
        Signed(neg) == Parsed(neg, IF neg THEN Tail(s) ELSE s)
    IN  Signed(Len(s) >= 1 /\ s[1] = 45)

IsSpace(c) == c = SP \/ (c >= 9 /\ c <= 13)

RECURSIVE SplitFrom(_, _, _, _)
SplitFrom(s, i, cur, acc) ==
    IF i > Len(s) THEN (IF cur = << >> THEN acc ELSE Append(acc, cur))
    ELSE IF IsSpace(s[i])
         THEN SplitFrom(s, i + 1, << >>, IF cur = << >> THEN acc ELSE Append(acc, cur))
         ELSE SplitFrom(s, i + 1, Append(cur, s[i]), acc)

\* str::split_whitespace, collected
split_whitespace(s) == SplitFrom(s, 1, << >>, << >>)

\* String::from_utf8(..).is_ok() for the single-byte alphabet of the model
Utf8Ok(bytes) == \A i \in 1 .. Len(bytes) : bytes[i] < 128

\* bytes written one after the other with nothing between them
RECURSIVE stringify_bytes_unspaced(_)
stringify_bytes_unspaced(bytes) ==
    IF Len(bytes) = 0 THEN << >>
    ELSE IntToStr(Head(bytes), 10) \o stringify_bytes_unspaced(Tail(bytes))

RECURSIVE stringify_bytes(_)
stringify_bytes(bytes) ==
    IF Len(bytes) = 0 THEN << >>
    ELSE IntToStr(Head(bytes), 10) \o << SP >> \o stringify_bytes(Tail(bytes))

\* ret.push(u8::from_str_radix(str, 10).unwrap()) for each token from the i-th on
RECURSIVE UnstringifyTokens(_, _, _)
UnstringifyTokens(toks, i, ret) ==
    IF i > Len(toks) THEN [ok |-> TRUE, val |-> ret]
    ELSE LET Push(b) ==
                 IF b.ok THEN UnstringifyTokens(toks, i + 1, Append(ret, b.val))
                 ELSE [ok |-> FALSE, val |-> << >>]
         IN  Push(FromStrRadix(toks[i], 10, 0, U8_MAX, FALSE))

\* ok = FALSE where the code's unwrap() panics
unstringify_bytes(string) == UnstringifyTokens(split_whitespace(string), 1, << >>)

\* index of the first newline of s, 0 when there is none
RECURSIVE NewlineAt(_, _)
NewlineAt(s, i) ==
    IF i > Len(s) THEN 0 ELSE IF s[i] = NL THEN i ELSE NewlineAt(s, i + 1)

\* the complete (newline-terminated) lines buffered in s, without their newline
RECURSIVE LinesOf(_)
LinesOf(s) ==
    LET Cut(k) ==
            IF k = 0 THEN << >>
            ELSE << SubSeq(s, 1, k - 1) >> \o LinesOf(SubSeq(s, k + 1, Len(s)))
    IN  Cut(NewlineAt(s, 1))

\* what is left of s after its first n lines have been read
RECURSIVE DropLines(_, _)
DropLines(s, n) ==
    IF n = 0 THEN s
    ELSE LET Cut(k) ==
                 IF k = 0 THEN << >> ELSE DropLines(SubSeq(s, k + 1, Len(s)), n - 1)
         IN  Cut(NewlineAt(s, 1))

(***************************************************************************)
(* proj_crypto::asymmetric::sign (external): a signed message is the       *)
(* signature followed by the message; verify returns the message when the  *)
(* signature is the signer's over exactly that message.  A key pair is     *)
(* named by one number, used as secret and as public key.                  *)
(***************************************************************************)
SIGNATUREBYTES == 2
METER_KEY == 1
PROVIDER_KEY == 2
OTHER_KEY == 3

\* a keyless stand-in for the signature's dependence on the message
RECURSIVE Digest(_, _, _)
Digest(m, lo, hi) ==
    IF lo > hi THEN 0
    ELSE IF lo = hi THEN (((lo % 250) + 1) * m[lo]) % 251
    ELSE LET Halves(mid) == (Digest(m, lo, mid) + Digest(m, mid + 1, hi)) % 251
         IN  Halves((lo + hi) \div 2)

sign(m, sk) == << sk, Digest(m, 1, Len(m)) >> \o m

verify(sm, pk) ==
    LET Check(m) ==
            IF sm[1] = pk /\ sm[2] = Digest(m, 1, Len(m))
            THEN [ok |-> TRUE, val |-> m]
            ELSE [ok |-> FALSE, val |-> << >>]
    IN  IF Len(sm) < SIGNATUREBYTES THEN [ok |-> FALSE, val |-> << >>]
        ELSE Check(SubSeq(sm, SIGNATUREBYTES + 1, Len(sm)))

(***************************************************************************)
(* proj_crypto::asymmetric::commitments (external): an additively          *)
(* homomorphic commitment.  A commitment to value x under blinding factor  *)
(* a is the number that carries x (in the value group) and a (modulo the   *)
(* commitment modulus params.0); + combines two commitments and * scales   *)
(* one by an integer, mirroring the same operations on (x, a).             *)
(***************************************************************************)
PARAMS_0 == 7
PARAMS_1 == 3
VALUE_ORDER == 2^(I64_BITS + 3) + 1

\* the blinding factors commitments::random_a(&params.1) can return
RandomA == 0 .. (PARAMS_1 - 1)

\* CommitmentContext::from_opening((x, a), params).unwrap().to_commitment().x
from_opening(x, a) == ((x % VALUE_ORDER) * PARAMS_0) + (a % PARAMS_0)

CommitValue(c) == c \div PARAMS_0
CommitBlind(c) == c % PARAMS_0

\* Commitment * Mpz
CommitScale(c, k) == from_opening(CommitValue(c) * k, CommitBlind(c) * k)

\* Commitment + Commitment
CommitAdd(c, d) ==
    from_opening(CommitValue(c) + CommitValue(d), CommitBlind(c) + CommitBlind(d))

(***************************************************************************)
(* IntegerConsumption                                                      *)
(***************************************************************************)
\* a check of the hour alone, as the meter shell makes before it calls consume
is_valid_hour_only(units_consumed, hour_of_week) == hour_of_week <= HOURS - 1

\* a meter that checks the units and not the hour
is_valid_units_only(units_consumed, hour_of_week) == units_consumed >= 0

is_valid(units_consumed, hour_of_week) ==
    IF hour_of_week > (HOURS - 1) THEN FALSE
    ELSE IF units_consumed < 0 THEN FALSE
    ELSE TRUE

null_prices == [h \in Hours |-> 0]

(***************************************************************************)
(* Meter: the record meter_consume writes for one reading                  *)
(***************************************************************************)
\* a meter that signs the hour after the one of the reading
TheHourSigned_shifted(hour_of_week) == hour_of_week + 1

\* the hour meter_consume puts in the payload it signs
TheHourSigned(hour_of_week) == hour_of_week

meter_message(units_consumed, hour_of_week, a, sk) ==
    LET Message(touple_str, thing_to_sign) ==
            touple_str \o << NL >> \o stringify_bytes(sign(thing_to_sign, sk))
                \o << NL >>
    IN  Message(IntToStr(units_consumed, 10) \o << SP >> \o IntToStr(a, 16),
                IntToStr(from_opening(units_consumed, a), 16) \o << SP >>
                    \o IntToStr(TheHourSigned(hour_of_week), 10))

(***************************************************************************)
(* Customer: customer_read_consumption parses one record (two lines).      *)
(* status "panic" is any unwrap()/assert failure of the code.              *)
(***************************************************************************)
\* a customer that files every record under the blinding factor 0
RowOf_blind_dropped(line2, cons, other, a) ==
    [signed_commitment |-> line2, cons |-> cons, other |-> other, a |-> 0]

RowOf(line2, cons, other, a) ==
    [signed_commitment |-> line2, cons |-> cons, other |-> other, a |-> a]

\* a customer that takes the payload of a record without checking who signed
MeterVerify_unchecked(signed_commitment_other, meter_key) ==
    [ok |-> Len(signed_commitment_other) >= SIGNATUREBYTES,
     val |-> SubSeq(signed_commitment_other, SIGNATUREBYTES + 1,
                    Len(signed_commitment_other))]

\* sign::verify(&signed_commitment_other, meter_key)
MeterVerify(signed_commitment_other, meter_key) ==
    verify(signed_commitment_other, meter_key)

customer_read_consumption(line1, line2, meter_key) ==
    LET bad == [status |-> "panic", row |-> RowOf(<< >>, 0, 0, 0)]
        Row(cons, other, a) ==
            IF ~cons.ok \/ ~other.ok \/ ~a.ok THEN bad
            ELSE [status |-> "ok", row |-> RowOf(line2, cons.val, other.val, a.val)]
        Tokens(commit_other, touple) ==
            IF Len(commit_other) # 2 \/ Len(touple) # 2 THEN bad
            ELSE Row(FromStrRadix(touple[1], 10, I32_MIN, I32_MAX, TRUE),
                     FromStrRadix(commit_other[2], 10, 0, U8_MAX, FALSE),
                     MpzFromStrRadix(touple[2], 16))
        Verified(ver) ==
            IF ~ver.ok \/ ~Utf8Ok(ver.val) THEN bad
            ELSE Tokens(split_whitespace(ver.val), split_whitespace(line1))
        Unstringified(sig) ==
            IF ~Utf8Ok(line1) \/ ~Utf8Ok(line2) \/ ~sig.ok THEN bad
            ELSE Verified(MeterVerify(sig.val, meter_key))
    IN  Unstringified(unstringify_bytes(line2))


(***************************************************************************)
(* Customer: the bill and the aggregate blinding factor of                  *)
(* send_billing_information, accumulated row by row as the loop does.      *)
(***************************************************************************)
\* ledger rows whose hour indexes outside the price table (index panic)
IndexPanics(others) == \E i \in 1 .. Len(others) : others[i] >= HOURS

\* a customer that bills every unit at the price 1 it was started with
RowTerm_unit_price(row, prices) == row.cons * 1

RowTerm(row, prices) == row.cons * prices[row.other]

\* bill += row.cons as i64 * prices[row.other] as i64, on an i64:
\* overflow is TRUE when some addition left the i64 range (a debug build
\* panics there), bill is the wrapped value a release build carries on with
RECURSIVE BillLoop(_, _, _, _)
BillLoop(table, prices, acc, ovf) ==
    IF Len(table) = 0 THEN [bill |-> acc, overflow |-> ovf]
    ELSE LET Add(next) ==
                 BillLoop(Tail(table), prices, Wrap64(next), ovf \/ ~InI64(next))
         IN  Add(acc + RowTerm(Head(table), prices))

\* a = (a + row.a * prices[row.other]).modulus(&params.0)
RECURSIVE BlindLoop(_, _, _)
BlindLoop(table, prices, acc) ==
    IF Len(table) = 0 THEN acc
    ELSE BlindLoop(Tail(table), prices,
                   (acc + Head(table).a * prices[Head(table).other]) % PARAMS_0)

RECURSIVE RowLines(_)
RowLines(table) ==
    IF Len(table) = 0 THEN << >>
    ELSE Head(table).signed_commitment \o << NL >> \o RowLines(Tail(table))

\* "bill\na\ntable.len()\n" followed by one line per row
ProofBytes(bill, a, n, row_lines) ==
    IntToStr(bill, 10) \o << NL >> \o IntToStr(a, 16) \o << NL >>
        \o IntToStr(n, 10) \o << NL >> \o row_lines

Others(table) == [i \in 1 .. Len(table) |-> table[i].other]

(***************************************************************************)
(* Provider: receive_billing_information on the buffered lines.            *)
(* status: "block" (a line it needs has not arrived), "panic_parse",       *)
(* "panic_zero" (zero rows, bill not 0), "return_zero", "panic_row" (a row *)
(* fails unstringify / verify / parsing), "panic_index" (hour outside the  *)
(* table), "panic_mismatch" (the assert on the commitments), "checked".    *)
(***************************************************************************)
\* a provider that parses the payload of a row without checking its signature
ParseRow_unverified(line, their_pk) ==
    LET bad == [ok |-> FALSE, commitment |-> 0, other |-> 0]
        Row(commitment, other) ==
            IF ~commitment.ok \/ ~other.ok THEN bad
            ELSE [ok |-> TRUE, commitment |-> commitment.val, other |-> other.val]
        Tokens(commit_other) ==
            IF Len(commit_other) # 2 THEN bad
            ELSE Row(MpzFromStrRadix(commit_other[1], 16),
                     FromStrRadix(commit_other[2], 10, 0, USIZE_MAX, FALSE))
        Unstringified(sig) ==
            IF ~Utf8Ok(line) \/ ~sig.ok \/ Len(sig.val) < SIGNATUREBYTES THEN bad
            ELSE Tokens(split_whitespace(
                            SubSeq(sig.val, SIGNATUREBYTES + 1, Len(sig.val))))
    IN  Unstringified(unstringify_bytes(line))

ParseRow(line, their_pk) ==
    LET bad == [ok |-> FALSE, commitment |-> 0, other |-> 0]
        Row(commitment, other) ==
            IF ~commitment.ok \/ ~other.ok THEN bad
            ELSE [ok |-> TRUE, commitment |-> commitment.val, other |-> other.val]
        Tokens(commit_other) ==
            IF Len(commit_other) # 2 THEN bad
            ELSE Row(MpzFromStrRadix(commit_other[1], 16),
                     FromStrRadix(commit_other[2], 10, 0, USIZE_MAX, FALSE))
        Verified(ver) ==
            IF ~ver.ok \/ ~Utf8Ok(ver.val) THEN bad
            ELSE Tokens(split_whitespace(ver.val))
        Unstringified(sig) ==
            IF ~Utf8Ok(line) \/ ~sig.ok THEN bad
            ELSE Verified(verify(sig.val, their_pk))
    IN  Unstringified(unstringify_bytes(line))

\* a provider that weights the first row only
RowPrice_first_row_only(prices, others, i) ==
    IF i = 1 THEN prices[others[i]] ELSE 0

\* a provider that weights every row by the hour of the first row
RowPrice_first(prices, others, i) == prices[others[1]]

\* the weight the provider gives row i of a proof
RowPrice(prices, others, i) == prices[others[i]]

\* commitments[0] * prices[others[0]] + ... + commitments[n-1] * prices[others[n-1]]
RECURSIVE CalculatedCommit(_, _, _, _)
CalculatedCommit(commitments, others, prices, i) ==
    IF i = 1 THEN CommitScale(commitments[1], RowPrice(prices, others, 1))
    ELSE CommitAdd(CalculatedCommit(commitments, others, prices, i - 1),
                   CommitScale(commitments[i], RowPrice(prices, others, i)))

\* a provider that does not compare the two commitments
CommitmentsMatch_any(expected_commit, calculated_commit) == TRUE

CommitmentsMatch(expected_commit, calculated_commit) ==
    expected_commit = calculated_commit

\* a provider that takes any bill on a proof of zero rows
ZeroRowsOk_any(bill) == TRUE

\* assert_eq!(bill, 0) on a proof of zero rows
ZeroRowsOk(bill) == bill = 0

Received(status, used, bill, a, length, commitments, others) ==
    [status |-> status, used |-> used, bill |-> bill, a |-> a, length |-> length,
     commitments |-> commitments, others |-> others]

\* the loop over the rows of a proof: row i is read, verified and parsed
\* before row i + 1 is read
RECURSIVE RowLoop(_, _, _, _, _, _)
RowLoop(lines, their_pk, i, length, commitments, others) ==
    IF i > length
    THEN [status |-> "ok", used |-> 3 + length,
          commitments |-> commitments, others |-> others]
    ELSE IF 3 + i > Len(lines)
    THEN [status |-> "block", used |-> 0, commitments |-> << >>, others |-> << >>]
    ELSE LET Push(row) ==
                 IF ~row.ok
                 THEN [status |-> "panic_row", used |-> 3 + i,
                       commitments |-> << >>, others |-> << >>]
                 ELSE RowLoop(lines, their_pk, i + 1, length,
                              Append(commitments, row.commitment),
                              Append(others, row.other))
         IN  Push(ParseRow(lines[3 + i], their_pk))

receive_billing_information(lines, prices, their_pk) ==
    LET Checked(bill, a, n, rows) ==
            IF rows.status = "panic_row"
            THEN Received("panic_row", rows.used, bill, a, n, << >>, << >>)
            ELSE IF rows.status = "block"
            THEN Received("block", 0, bill, a, n, << >>, << >>)
            ELSE IF IndexPanics(rows.others)
            THEN Received("panic_index", 3 + n, bill, a, n,
                          rows.commitments, rows.others)
            ELSE IF ~CommitmentsMatch(from_opening(bill, a),
                                      CalculatedCommit(rows.commitments, rows.others,
                                                       prices, n))
            THEN Received("panic_mismatch", 3 + n, bill, a, n,
                          rows.commitments, rows.others)
            ELSE Received("checked", 3 + n, bill, a, n, rows.commitments, rows.others)
        Header(bill, a, length) ==
            IF ~(/\ Utf8Ok(lines[1]) /\ Utf8Ok(lines[2]) /\ Utf8Ok(lines[3])
                 /\ bill.ok /\ a.ok /\ length.ok)
            THEN Received("panic_parse", 3, 0, 0, 0, << >>, << >>)
            ELSE IF length.val = 0
            THEN Received(IF ZeroRowsOk(bill.val) THEN "return_zero" ELSE "panic_zero",
                          3, bill.val, a.val, 0, << >>, << >>)
            ELSE Checked(bill.val, a.val, length.val,
                         RowLoop(lines, their_pk, 1, length.val, << >>, << >>))
    IN  IF Len(lines) < 3 THEN Received("block", 0, 0, 0, 0, << >>, << >>)
        ELSE Header(FromStrRadix(lines[1], 10, I64_MIN, I64_MAX, TRUE),
                    MpzFromStrRadix(lines[2], 16),
                    FromStrRadix(lines[3], 10, 0, USIZE_MAX, FALSE))

(***************************************************************************)
(* Price distribution (common.rs): the signed blob and its receiver        *)
(***************************************************************************)
SYSTEMTIME_BYTES == 16
FRESH_SECS == 2 * 31 * 24 * 60 * 60

\* transmute of an i32 to its 4 bytes and back (little-endian host)
\* a layout with the most significant byte first
I32ToBytes_big_endian(p) ==
    << (p \div 16777216) % 256, (p \div 65536) % 256, (p \div 256) % 256, p % 256 >>

I32ToBytes(p) ==
    << p % 256, (p \div 256) % 256, (p \div 65536) % 256, (p \div 16777216) % 256 >>

cons_from_bytes(b) ==
    b[1] + 256 * b[2] + 65536 * b[3]
        + 16777216 * (IF b[4] >= 128 THEN b[4] - 256 ELSE b[4])

\* transmute_copy of the table: the 4 bytes of each price, in table order
prices_to_bytes(prices) ==
    [i \in 1 .. (4 * HOURS) |-> I32ToBytes(prices[(i - 1) \div 4])[((i - 1) % 4) + 1]]

\* transmute of a SystemTime: the seconds in the first 8 bytes
TimeToBytes(t) ==
    I32ToBytes(t) \o [i \in 1 .. (SYSTEMTIME_BYTES - 4) |-> 0]

TimeFromBytes(b) == cons_from_bytes(SubSeq(b, 1, 4))

BUF_LEN == 4 * HOURS + SIGNATUREBYTES + SYSTEMTIME_BYTES

\* the blob common::change_prices writes
PriceBlob(prices, sk, t) == sign(TimeToBytes(t) \o prices_to_bytes(prices), sk)

PricesOfData(data_buf) ==
    [h \in Hours |-> cons_from_bytes(SubSeq(data_buf, 4 * h + 1, 4 * h + 4))]

\* a receiver that only refuses timestamps of the future
TimestampRejected_future_only(timestamp, t_now) == timestamp > t_now

\* SystemTime::now().duration_since(timestamp).unwrap() panics on a
\* timestamp of the future, the test on as_secs() on one that is too old
TimestampRejected(timestamp, t_now) ==
    timestamp > t_now \/ t_now - timestamp > FRESH_SECS

\* a receiver that keeps the table of the first block it read
LatestTable_first(ret, new_prices) ==
    IF ret.some THEN ret ELSE [some |-> TRUE, prices |-> new_prices]

\* ret = Some(new_prices)
LatestTable(ret, new_prices) == [some |-> TRUE, prices |-> new_prices]

\* check_for_new_prices: one BUF_LEN read per iteration until the channel
\* would block; ret is the table of the last block read
RECURSIVE check_for_new_prices(_, _, _, _)
check_for_new_prices(chan, their_pk, t_now, ret) ==
    IF Len(chan) = 0 THEN [status |-> "ok", ret |-> ret, rest |-> chan]
    ELSE IF Len(chan) < BUF_LEN THEN [status |-> "panic", ret |-> ret, rest |-> << >>]
    ELSE LET Fresh(rest, data, timestamp) ==
                 IF TimestampRejected(timestamp, t_now)
                 THEN [status |-> "panic", ret |-> ret, rest |-> rest]
                 ELSE check_for_new_prices(rest, their_pk, t_now,
                          LatestTable(ret, PricesOfData(
                              SubSeq(data, SYSTEMTIME_BYTES + 1, Len(data)))))
             Block(rest, ver) ==
                 IF ~ver.ok THEN [status |-> "panic", ret |-> ret, rest |-> rest]
                 ELSE Fresh(rest, ver.val,
                            TimeFromBytes(SubSeq(ver.val, 1, SYSTEMTIME_BYTES)))
         IN  Block(SubSeq(chan, BUF_LEN + 1, Len(chan)),
                   verify(SubSeq(chan, 1, BUF_LEN), their_pk))


(***************************************************************************)
(* sign_on_meter.rs: f32 prices and units, an f64 running total.  The      *)
(* values of the model are the integers a float holds exactly; transmute   *)
(* lays them out as IEEE 754 words, least significant byte first.          *)
(***************************************************************************)
RECURSIVE Log2(_)
Log2(n) == IF n < 2 THEN 0 ELSE 1 + Log2(n \div 2)

Abs(x) == IF x < 0 THEN -x ELSE x

\* transmute::<f32, [u8; 4]>: sign, 8 exponent bits, 23 fraction bits
f32_to_bytes(x) ==
    LET Word(sgn, exp, man) ==
            << man % 256, (man \div 256) % 256,
               (exp % 2) * 128 + man \div 65536, sgn * 128 + exp \div 2 >>
        Normal(sgn, m, e) == Word(sgn, 127 + e, (m - 2^e) * 2^(23 - e))
    IN  IF x = 0 THEN << 0, 0, 0, 0 >>
        ELSE Normal(IF x < 0 THEN 1 ELSE 0, Abs(x), Log2(Abs(x)))

\* transmute::<[u8; 4], f32>
f32_from_bytes(b) ==
    LET Value(sgn, exp, man) ==
            IF exp = 0 /\ man = 0 THEN 0
            ELSE (IF sgn = 1 THEN -1 ELSE 1)
                 * ((2^23 + man) \div 2^(23 - (exp - 127)))
    IN  Value(b[4] \div 128, (b[4] % 128) * 2 + b[3] \div 128,
              (b[3] % 128) * 65536 + b[2] * 256 + b[1])

\* transmute::<f64, [u8; 8]>: sign, 11 exponent bits, 52 fraction bits, of
\* which a value below 2^20 uses the top 20
f64_to_bytes(x) ==
    LET Word(sgn, exp, top) ==
            << 0, 0, 0, 0, top % 256, (top \div 256) % 256,
               (exp % 16) * 16 + top \div 65536, sgn * 128 + exp \div 16 >>
        Normal(sgn, m, e) == Word(sgn, 1023 + e, (m - 2^e) * 2^(20 - e))
    IN  IF x = 0 THEN << 0, 0, 0, 0, 0, 0, 0, 0 >>
        ELSE Normal(IF x < 0 THEN 1 ELSE 0, Abs(x), Log2(Abs(x)))

\* transmute::<[u8; 8], f64>
f64_from_bytes(b) ==
    LET Value(sgn, exp, top) ==
            IF exp = 0 /\ top = 0 THEN 0
            ELSE (IF sgn = 1 THEN -1 ELSE 1)
                 * ((2^20 + top) \div 2^(20 - (exp - 1023)))
    IN  Value(b[8] \div 128, (b[8] % 128) * 16 + b[7] \div 16,
              (b[7] % 16) * 65536 + b[6] * 256 + b[5])

\* transmute::<Prices, [u8; 4*24*7]>
RECURSIVE f32_prices_to_bytes(_, _, _)
f32_prices_to_bytes(prices, h, acc) ==
    IF h = HOURS THEN acc
    ELSE f32_prices_to_bytes(prices, h + 1, acc \o f32_to_bytes(prices[h]))

\* the loop of consume that rebuilds the table from data_buf
f32_prices_from_bytes(data_buf) ==
    [h \in Hours |-> f32_from_bytes(SubSeq(data_buf, 4 * h + 1, 4 * h + 4))]

\* Consumption::is_valid of sign_on_meter.rs
som_is_valid(units_consumed, hour_of_week) ==
    IF hour_of_week > HOURS - 1 THEN FALSE
    ELSE IF units_consumed < 0 THEN FALSE
    ELSE TRUE

\* BUF_LEN of consume: a table and its signature, and nothing else
PRICES_BUF_LEN == 4 * HOURS + SIGNATUREBYTES

\* BUF_LEN of pay_bill
BILL_BUF_LEN == 8 + SIGNATUREBYTES

\* a meter that takes every price as it comes
som_price_is_invalid_never(price) == FALSE

\* if new_prices[i] < 0.0 { panic!("Invalid price is less than 0") }
som_price_is_invalid(price) == price < 0

\* the 'messages loop of consume: every update that is buffered is verified,
\* checked for a negative price and installed
RECURSIVE som_read_prices(_, _, _, _)
som_read_prices(chan, their_pk, prices, n) ==
    IF Len(chan) = 0
    THEN [status |-> "ok", prices |-> prices, n |-> n]
    ELSE IF Len(chan) < PRICES_BUF_LEN
    THEN [status |-> "panic_short", prices |-> prices, n |-> n]
    ELSE LET Install(rest, new_prices) ==
                 IF \E h \in Hours : som_price_is_invalid(new_prices[h])
                 THEN [status |-> "panic_negative", prices |-> prices, n |-> n]
                 ELSE som_read_prices(rest, their_pk, new_prices, n + 1)
             Block(rest, ver) ==
                 IF ~ver.ok
                 THEN [status |-> "panic_verify", prices |-> prices, n |-> n]
                 ELSE Install(rest, f32_prices_from_bytes(ver.val))
         IN  Block(SubSeq(chan, PRICES_BUF_LEN + 1, Len(chan)),
                   verify(SubSeq(chan, 1, PRICES_BUF_LEN), their_pk))


(***************************************************************************)
(* State                                                                   *)
(***************************************************************************)
VARIABLES
    overflow_checks,    \* the build: TRUE panics on integer overflow, FALSE wraps
    panicked,           \* the roles whose process has panicked
    lan,                \* bytes written by the meter, not yet read by the customer
    wan_up,             \* bytes written by the customer, not yet read by the provider
    wan_down,           \* bytes written by the provider, not yet read by the customer
    consumption_table,  \* CustomerState.consumption_table
    customer_prices,    \* CustomerState.prices
    provider_prices,    \* ProviderState.prices
    bill_total,         \* ProviderState.bill_total
    now,                \* SystemTime::now(), in seconds
    readings,           \* history: how many readings the meter has signed
    lan_log,            \* history: for each record in lan, the reading it carries
    last_read,          \* history: the last read_meter_messages call of a shell
    sent,               \* history: for each proof in wan_up, how it was built
    recv,               \* history: the last receive_billing_information
    last_pay,           \* history: the last pay_bill and the exact sum it owed
    down_log,           \* history: for each write on wan_down, what it carries
    last_prices,        \* history: the last read_provider_messages call of a shell
    last_send,          \* history: the last send_billing_information
    som_down,           \* sign-on-meter: bytes written by the server, not yet read
    som_up,             \* sign-on-meter: bytes written by the meter, not yet read
    meter_prices,       \* SignOnMeter.prices of the meter
    meter_running_total,  \* SignOnMeter.running_total of the meter
    server_running_total, \* SignOnMeter.running_total of the server
    som_log,            \* history: what the sign-on-meter channel carries and did
    dhparams,           \* the parameter file and what read_or_gen_params returned
    codec               \* tests::stringify: the bytes, their string, the bytes read back

vars == << overflow_checks, panicked, lan, wan_up, wan_down, consumption_table,
           customer_prices, provider_prices, bill_total, now, readings, lan_log,
           last_read, sent, recv, last_pay, down_log, last_prices, last_send,
           som_down, som_up, meter_prices, meter_running_total,
           server_running_total, som_log, dhparams, codec >>

\* the state of the sign-on-meter protocol
som_vars == << som_down, som_up, meter_prices, meter_running_total,
              server_running_total, som_log >>

\* the state of the three-party protocol
three_party_vars ==
    << lan, wan_up, wan_down, consumption_table, customer_prices, provider_prices,
       bill_total, readings, lan_log, last_read, sent, recv, last_pay, down_log,
       last_prices, last_send >>

\* [1; 24*7]: the table both shells construct their state with
InitialPrices == [h \in Hours |-> 1]

\* a table with a dear hour and free hours
PeakPrices == [h \in Hours |-> IF h = 0 THEN I32_MAX ELSE 0]

\* the tables the parties are constructed with
StartPrices == {InitialPrices, PeakPrices}

NoProof == [kind |-> "none", rows |-> << >>, prices |-> null_prices, row |-> 0]

NoRecv ==
    [status |-> "none", bill |-> 0, a |-> 0, length |-> 0, commitments |-> << >>,
     others |-> << >>, weights |-> << >>, prices |-> null_prices, before |-> 0,
     after |-> 0, proof |-> NoProof]

Reading(units_consumed, hour_of_week, a) ==
    [cons |-> units_consumed, hour |-> hour_of_week, a |-> a]

NoPay ==
    [n |-> 0, ret |-> 0, due |-> 0, bills |-> 0, owed |-> 0, after |-> 0,
     again |-> FALSE]

\* what a write of change_prices put on wan_down
Blob(prices, time, complete) ==
    [prices |-> prices, time |-> time, complete |-> complete]

NoPrices ==
    [status |-> "none", buffered |-> << >>, before |-> null_prices,
     after |-> null_prices, at |-> 0, left |-> 0, rows |-> 0]

NoSend ==
    [status |-> "none", fail_at |-> 0, ledger |-> << >>, prices |-> null_prices,
     after |-> << >>, bill |-> 0, written |-> << >>]

NoRead ==
    [status |-> "none", buffered |-> 0, rows_before |-> 0, appended |-> 0,
     first |-> Reading(0, 0, 0), signature |-> << >>, touple |-> << >>]

NoSomPay == [n |-> 0, ret |-> 0, sent |-> 0, expected |-> 0]

NoSom ==
    [blobs |-> << >>, installed |-> << >>, at |-> 0, consumed |-> 0,
     expected |-> 0, bills |-> << >>, timeouts |-> 0,
     pay |-> NoSomPay, read |-> "none"]

\* tests::stringify has not run and has no test_vec
NoCodec == [stage |-> "none", bytes |-> << >>, string |-> << >>,
            back |-> [ok |-> TRUE, val |-> << >>]]

\* tests::stringify is about to run on test_vec
CodecInput(test_vec) == [NoCodec EXCEPT !.stage = "input", !.bytes = test_vec]

\* no file at the path yet (0), no call made and none under way
NoParams == [file |-> 0, returned |-> << >>, pending |-> 0]

InitParties ==
    /\ overflow_checks \in BOOLEAN
    /\ panicked = {}
    /\ lan = << >>
    /\ wan_up = << >>
    /\ wan_down = << >>
    /\ consumption_table = << >>
    /\ provider_prices \in StartPrices
    /\ customer_prices = provider_prices
    /\ bill_total = 0
    /\ now = 0
    /\ readings = 0
    /\ lan_log = << >>
    /\ last_read = NoRead
    /\ sent = << >>
    /\ recv = NoRecv
    /\ last_pay = NoPay
    /\ down_log = << >>
    /\ last_prices = NoPrices
    /\ last_send = NoSend
    /\ som_down = << >>
    /\ som_up = << >>
    /\ meter_prices = null_prices
    /\ meter_running_total = 0
    /\ server_running_total = 0
    /\ som_log = NoSom
    /\ dhparams = NoParams

Init == InitParties /\ codec = NoCodec

Panic(role) == panicked' = panicked \cup {role}

(***************************************************************************)
(* MeterState.consume -> meter_consume                                     *)
(***************************************************************************)
MeterConsume(units_consumed, hour_of_week, a) ==
    /\ "meter" \notin panicked
    /\ readings < MaxReadings
    /\ Len(lan_log) < MaxBuffered
    /\ IF ~is_valid(units_consumed, hour_of_week)
       THEN /\ Panic("meter")
            /\ UNCHANGED << lan, readings, lan_log >>
       ELSE /\ lan' = lan \o meter_message(units_consumed, hour_of_week, a, METER_KEY)
            /\ readings' = readings + 1
            /\ lan_log' = Append(lan_log, Reading(units_consumed, hour_of_week, a))
            /\ UNCHANGED panicked
    /\ UNCHANGED << som_vars, dhparams, codec, overflow_checks, wan_up, wan_down, consumption_table,
                    customer_prices, provider_prices, bill_total, now, last_read,
                    sent, recv, last_pay,
                    down_log, last_prices, last_send >>

(***************************************************************************)
(* CustomerState.read_meter_messages                                       *)
(***************************************************************************)
\* how many times read_meter_messages calls customer_read_consumption
ReadCalls(buffered) == 1

\* calls of customer_read_consumption, one after the other, on the channel
RECURSIVE ReadLoop(_, _, _)
ReadLoop(chan, table, calls) ==
    IF calls = 0 THEN [status |-> "ok", chan |-> chan, table |-> table]
    ELSE LET Row(r) ==
                 IF r.status # "ok"
                 THEN [status |-> "panic", chan |-> DropLines(chan, 2), table |-> table]
                 ELSE ReadLoop(DropLines(chan, 2), Append(table, r.row), calls - 1)
             Lines(lines) ==
                 IF Len(lines) < 2
                 THEN \* bytes() yields an Err that read_up_to_newline unwraps
                      [status |-> "panic", chan |-> chan, table |-> table]
                 ELSE Row(customer_read_consumption(lines[1], lines[2], METER_KEY))
         IN  Lines(LinesOf(chan))

read_meter_messages(chan, table) ==
    ReadLoop(chan, table, ReadCalls(Len(LinesOf(chan)) \div 2))

\* the signature line of the first record buffered on the channel
FirstSignature(chan) ==
    LET Second(lines) == IF Len(lines) >= 2 THEN lines[2] ELSE << >>
    IN  Second(LinesOf(chan))

\* the first line of the first record buffered on the channel
FirstTouple(chan) ==
    LET First(lines) == IF Len(lines) >= 1 THEN lines[1] ELSE << >>
    IN  First(LinesOf(chan))

ReadMeterMessages ==
    /\ "customer" \notin panicked
    /\ \E r \in {read_meter_messages(lan, consumption_table)} :
           /\ lan' = r.chan
           /\ consumption_table' = r.table
           /\ lan_log' = SubSeq(lan_log, Len(r.table) - Len(consumption_table) + 1,
                                Len(lan_log))
           /\ last_read' = [status |-> r.status, buffered |-> Len(lan_log),
                            rows_before |-> Len(consumption_table),
                            appended |-> Len(r.table) - Len(consumption_table),
                            first |-> IF Len(lan_log) > 0 THEN Head(lan_log)
                                      ELSE Reading(0, 0, 0),
                            signature |-> FirstSignature(lan),
                            touple |-> FirstTouple(lan)]
           /\ IF r.status = "ok" THEN UNCHANGED panicked ELSE Panic("customer")
    /\ UNCHANGED << som_vars, dhparams, codec, overflow_checks, wan_up, wan_down, customer_prices,
                    provider_prices, bill_total, now, readings, sent, recv, last_pay,
                    down_log, last_prices, last_send >>

(***************************************************************************)
(* Records on the meter channel that meter_consume did not write.  The     *)
(* customer reads whatever bytes arrive on its LAN socket:                 *)
(*   "key"     a well-formed record signed with a key other than the       *)
(*             meter's                                                     *)
(*   "altered" the meter's signature on a record whose payload names       *)
(*             another hour than the one that was signed                   *)
(*   "touple"  a record of the meter whose first line, which is not        *)
(*             signed, names one unit more than the meter committed to     *)
(*   "wide"    a record of the meter whose first line names more units     *)
(*             than an i32 holds                                           *)
(***************************************************************************)
ForgeKinds == {"key", "altered"}
ToupleKinds == {"touple", "wide"}

AlteredCons(units_consumed, kind) ==
    IF kind = "wide" THEN I32_MAX + 1 ELSE units_consumed + 1

AlteredHour(hour_of_week) == (hour_of_week + 1) % HOURS

forged_message(units_consumed, hour_of_week, a, kind) ==
    LET Message(commitment_str, signed) ==
            IntToStr(units_consumed, 10) \o << SP >> \o IntToStr(a, 16) \o << NL >>
                \o stringify_bytes(
                       SubSeq(signed, 1, SIGNATUREBYTES) \o commitment_str
                           \o << SP >> \o IntToStr(AlteredHour(hour_of_week), 10))
                \o << NL >>
        Signed(commitment_str) ==
            Message(commitment_str,
                    sign(commitment_str \o << SP >> \o IntToStr(hour_of_week, 10),
                         METER_KEY))
        Retoupled(cons, lines) ==
            IntToStr(cons, 10) \o << SP >> \o IntToStr(a, 16) \o << NL >>
                \o lines[2] \o << NL >>
    IN  IF kind = "key"
        THEN meter_message(units_consumed, hour_of_week, a, OTHER_KEY)
        ELSE IF kind \in ToupleKinds
        THEN Retoupled(AlteredCons(units_consumed, kind),
                       LinesOf(meter_message(units_consumed, hour_of_week, a,
                                             METER_KEY)))
        ELSE Signed(IntToStr(from_opening(units_consumed, a), 16))

LanInject(units_consumed, hour_of_week, a, kind) ==
    /\ kind \in ForgeKinds \cup ToupleKinds
    /\ is_valid(units_consumed, hour_of_week)
    /\ Len(lan_log) < MaxBuffered
    /\ lan' = lan \o forged_message(units_consumed, hour_of_week, a, kind)
    /\ lan_log' = Append(lan_log, Reading(units_consumed, hour_of_week, a))
    /\ UNCHANGED << som_vars, dhparams, codec, overflow_checks, panicked, wan_up, wan_down, consumption_table,
                    customer_prices, provider_prices, bill_total, now, readings,
                    last_read, sent, recv, last_pay, down_log, last_prices,
                    last_send >>

(***************************************************************************)
(* CustomerState.read_provider_messages                                    *)
(***************************************************************************)
read_provider_messages(chan, prices, t_now) ==
    LET Result(r) ==
            [status |-> r.status, chan |-> r.rest,
             prices |-> IF r.status = "ok" /\ r.ret.some THEN r.ret.prices ELSE prices]
    IN  Result(check_for_new_prices(chan, PROVIDER_KEY, t_now,
                                    [some |-> FALSE, prices |-> null_prices]))

ReadProviderMessages ==
    /\ "customer" \notin panicked
    /\ \E r \in {read_provider_messages(wan_down, customer_prices, now)} :
           /\ wan_down' = r.chan
           /\ customer_prices' = r.prices
           /\ down_log' = << >>
           /\ last_prices' = [status |-> r.status, buffered |-> down_log,
                              before |-> customer_prices, after |-> r.prices,
                              at |-> now, left |-> Len(r.chan),
                              rows |-> Len(consumption_table)]
           /\ IF r.status = "ok" THEN UNCHANGED panicked ELSE Panic("customer")
    /\ UNCHANGED << som_vars, dhparams, codec, overflow_checks, lan, wan_up, consumption_table, provider_prices,
                    bill_total, now, readings, lan_log, last_read, sent, recv,
                    last_pay, last_send >>

(***************************************************************************)
(* tests::ThreeParty::consume: the client of the test harness runs         *)
(* read_provider_messages, MeterState.consume and read_meter_messages one  *)
(* after the other in a single thread                                      *)
(***************************************************************************)
Consume(units_consumed, hour_of_week, a) ==
    /\ "meter" \notin panicked
    /\ "customer" \notin panicked
    /\ readings < MaxReadings
    /\ \E p \in {read_provider_messages(wan_down, customer_prices, now)} :
           /\ wan_down' = p.chan
           /\ customer_prices' = p.prices
           /\ down_log' = << >>
           /\ IF p.status # "ok" \/ ~is_valid(units_consumed, hour_of_week)
              THEN /\ panicked' = panicked \cup {"meter", "customer"}
                   /\ UNCHANGED << lan, consumption_table, readings, lan_log >>
              ELSE \E r \in {read_meter_messages(
                                 lan \o meter_message(units_consumed, hour_of_week, a,
                                                      METER_KEY),
                                 consumption_table)} :
                   /\ lan' = r.chan
                   /\ consumption_table' = r.table
                   /\ readings' = readings + 1
                   /\ lan_log' =
                        SubSeq(Append(lan_log, Reading(units_consumed, hour_of_week, a)),
                               Len(r.table) - Len(consumption_table) + 1,
                               Len(lan_log) + 1)
                   /\ IF r.status = "ok" THEN UNCHANGED panicked
                      ELSE panicked' = panicked \cup {"meter", "customer"}
    /\ UNCHANGED << som_vars, dhparams, codec, overflow_checks, wan_up, provider_prices, bill_total, now,
                    last_read, sent, recv, last_pay, last_prices, last_send >>

(***************************************************************************)
(* CustomerState.send_billing_information                                  *)
(***************************************************************************)
LedgerView(table) ==
    [i \in 1 .. Len(table) |->
        [cons |-> table[i].cons, hour |-> table[i].other, a |-> table[i].a]]

SentProof(kind, table, prices, row) ==
    [kind |-> kind, rows |-> LedgerView(table), prices |-> prices, row |-> row]

\* the writes of a proof: the header "bill\na\ntable.len()\n", then one
\* write per row
\* a customer that writes the newest row first
RECURSIVE RowWrites_reversed(_)
RowWrites_reversed(table) ==
    IF Len(table) = 0 THEN << >>
    ELSE RowWrites_reversed(Tail(table))
             \o << Head(table).signed_commitment \o << NL >> >>

RECURSIVE RowWrites(_)
RowWrites(table) ==
    IF Len(table) = 0 THEN << >>
    ELSE << Head(table).signed_commitment \o << NL >> >> \o RowWrites(Tail(table))

\* a customer that counts the header line among the rows
ProofWrites_counting_header(bill, a, table) ==
    << IntToStr(bill, 10) \o << NL >> \o IntToStr(a, 16) \o << NL >>
           \o IntToStr(Len(table) + 1, 10) \o << NL >> >> \o RowWrites(table)

ProofWrites(bill, a, table) ==
    << IntToStr(bill, 10) \o << NL >> \o IntToStr(a, 16) \o << NL >>
           \o IntToStr(Len(table), 10) \o << NL >> >> \o RowWrites(table)

\* the bytes that reach the channel from write i on when write fail_at does
\* not complete (fail_at = 0: every write completes); a short write leaves
\* its first byte on the channel, a failed one nothing
RECURSIVE WrittenBytes(_, _, _, _)
WrittenBytes(writes, i, fail_at, short) ==
    IF i > Len(writes) THEN << >>
    ELSE IF i = fail_at THEN (IF short THEN << writes[i][1] >> ELSE << >>)
    ELSE writes[i] \o WrittenBytes(writes, i + 1, fail_at, short)

\* a customer that empties the ledger whatever became of the writes
LedgerAfterSend_always(table, fail_at) == << >>

\* self.consumption_table.clear() is reached when no write panicked
LedgerAfterSend(table, fail_at) == IF fail_at = 0 THEN << >> ELSE table

\* a customer that forgets its prices with its ledger
PricesAfterSend_cleared(prices) == null_prices

\* send_billing_information reads self.prices and assigns nothing to it
PricesAfterSend(prices) == prices

SendBillingInformation(fail_at, short) ==
    /\ "customer" \notin panicked
    /\ Len(sent) < MaxProofs
    /\ fail_at \in 0 .. (Len(consumption_table) + 1)
    /\ fail_at = 0 => ~short
    /\ \E sum \in {BillLoop(consumption_table, customer_prices, 0, FALSE)} :
           IF IndexPanics(Others(consumption_table))
              \/ (overflow_checks /\ sum.overflow)
           THEN /\ Panic("customer")
                /\ last_send' = [status |-> "panic", fail_at |-> fail_at,
                                 ledger |-> consumption_table,
                                 prices |-> customer_prices,
                                 after |-> consumption_table, bill |-> sum.bill,
                                 written |-> << >>]
                /\ UNCHANGED << wan_up, consumption_table, sent >>
           ELSE \E written \in
                     {WrittenBytes(ProofWrites(sum.bill,
                                               BlindLoop(consumption_table,
                                                         customer_prices, 0),
                                               consumption_table),
                                   1, fail_at, short)} :
                /\ wan_up' = wan_up \o written
                /\ consumption_table' = LedgerAfterSend(consumption_table, fail_at)
                /\ sent' = IF fail_at = 0
                           THEN Append(sent, SentProof("honest", consumption_table,
                                                       customer_prices, 0))
                           ELSE sent
                /\ last_send' = [status |-> IF fail_at = 0 THEN "ok" ELSE "failed",
                                 fail_at |-> fail_at,
                                 ledger |-> consumption_table,
                                 prices |-> customer_prices,
                                 after |-> LedgerAfterSend(consumption_table, fail_at),
                                 bill |-> sum.bill, written |-> written]
                /\ IF fail_at = 0 THEN UNCHANGED panicked ELSE Panic("customer")
    /\ customer_prices' = PricesAfterSend(customer_prices)
    /\ UNCHANGED << som_vars, dhparams, codec, overflow_checks, lan, wan_down, provider_prices,
                    bill_total, now, readings, lan_log, last_read, recv, last_pay,
                    down_log, last_prices >>

(***************************************************************************)
(* A dishonest customer.  The provider reads whatever its peer wrote on    *)
(* the channel; a customer that does not run send_billing_information can  *)
(* write any proof it is able to build from its own ledger.  It holds the  *)
(* meter's signed records but not the meter's signing key.                 *)
(*   "cons"   row i is billed with cons v instead of the committed one     *)
(*   "bill"   the declared bill is off by v                                *)
(*   "blind"  the declared a is off by v                                   *)
(*   "zero"   a proof of zero rows declaring the bill v                    *)
(*   "forged" row i carries the same payload signed with another key       *)
(*   "hour"   row i's payload names hour v under the meter's signature     *)
(*   "permute" rows i and i + 1 change places under the honest header      *)
(*   "outside" row i's payload names an hour after the last of the week    *)
(*   "subset" row i alone is billed and sent, the other rows are left out   *)
(*   "double" row i is billed and sent twice, the other rows are left out   *)
(*   "replay" the ledger is billed and sent as it is, and kept to be sent   *)
(*            again                                                        *)
(***************************************************************************)
DishonestKinds ==
    {"cons", "bill", "blind", "zero", "forged", "hour", "permute", "outside"}

\* the kinds that choose which of the meter's records to present
RowChoiceKinds == {"subset", "double", "replay"}

\* the signed bytes of a ledger row, and the payload they carry
SignedBytes(row) == unstringify_bytes(row.signed_commitment).val
Payload(row) == SubSeq(SignedBytes(row), SIGNATUREBYTES + 1, Len(SignedBytes(row)))

Forged(row) ==
    [row EXCEPT !.signed_commitment = stringify_bytes(sign(Payload(row), OTHER_KEY))]

Rehoured(row, v) ==
    [row EXCEPT !.other = v,
                !.signed_commitment =
                    stringify_bytes(SubSeq(SignedBytes(row), 1, SIGNATUREBYTES)
                        \o split_whitespace(Payload(row))[1] \o << SP >>
                        \o IntToStr(v, 10))]

\* the ledger the dishonest customer bills from, and the rows it sends
BilledTable(kind, table, i, v) ==
    CASE kind = "cons" -> [table EXCEPT ![i].cons = v]
      [] kind = "hour" -> [table EXCEPT ![i] = Rehoured(table[i], v)]
      [] kind = "zero" -> << >>
      [] kind = "subset" -> << table[i] >>
      [] kind = "double" -> << table[i], table[i] >>
      [] OTHER -> table

SentTable(kind, table, i, v) ==
    CASE kind = "forged" -> [table EXCEPT ![i] = Forged(table[i])]
      [] kind = "permute" -> [table EXCEPT ![i] = table[i + 1], ![i + 1] = table[i]]
      [] kind = "outside" -> [table EXCEPT ![i] = Rehoured(table[i], HOURS)]
      [] OTHER -> BilledTable(kind, table, i, v)

DishonestProof(kind, table, prices, i, v) ==
    LET Proof(rows, sum, a) ==
            ProofBytes(IF kind \in {"bill", "zero"} THEN Wrap64(sum + v) ELSE sum,
                       IF kind = "blind" THEN (a + v) % PARAMS_0 ELSE a,
                       Len(rows), RowLines(rows))
        Billed(billed) ==
            Proof(SentTable(kind, table, i, v),
                  BillLoop(billed, prices, 0, FALSE).bill,
                  BlindLoop(billed, prices, 0))
    IN  Billed(BilledTable(kind, table, i, v))

DishonestSend(kind, i, v) ==
    /\ "customer" \notin panicked
    /\ Len(sent) < MaxProofs
    /\ kind \in DishonestKinds \cup RowChoiceKinds
    /\ kind = "zero" \/ i \in 1 .. Len(consumption_table)
    /\ kind = "cons" => (v >= 0 /\ v # consumption_table[i].cons)
    /\ kind = "hour" => (v \in Hours /\ v # consumption_table[i].other)
    /\ kind \in {"bill", "blind"} => v # 0
    /\ kind = "permute" => (i < Len(consumption_table) /\ v = 0)
    /\ kind = "outside" => v = 0
    /\ kind \in {"subset", "double"} => v = 0
    /\ kind = "replay" => (i = 1 /\ v = 0)
    /\ ~IndexPanics(Others(consumption_table))
    /\ wan_up' = wan_up \o DishonestProof(kind, consumption_table, customer_prices, i, v)
    /\ consumption_table' = IF kind = "replay" THEN consumption_table ELSE << >>
    /\ sent' = Append(sent, SentProof(kind, consumption_table, customer_prices,
                                      IF kind \in {"cons", "forged", "hour", "outside",
                                                    "subset", "double"}
                                      THEN i ELSE 0))
    /\ UNCHANGED << som_vars, dhparams, codec, overflow_checks, panicked, lan, wan_down, customer_prices,
                    provider_prices, bill_total, now, readings, lan_log, last_read,
                    recv, last_pay,
                    down_log, last_prices, last_send >>

(***************************************************************************)
(* ProviderState.receive_billing_information (blocking reads)              *)
(***************************************************************************)
\* a provider that drops the bill it has verified
AddToTotal_ignoring(total, bill) == total

\* self.bill_total += bill
AddToTotal(total, bill) == total + bill

\* self.bill_total = 0 of pay_bill
TotalAfterPay(total) == 0

\* what a pay_bill that finds total records: the value it returns, and the
\* exact sum of the bills accepted since the pay_bill before it
PayRecord(total, due, bills) ==
    [n |-> 1, ret |-> total, due |-> 0, bills |-> 0, owed |-> due,
     after |-> TotalAfterPay(total), again |-> last_pay.n = 1 /\ bills = 0]

\* receive_billing_information.  read_timeout: the channel has a read
\* timeout, and it expires on a read that finds the proof incomplete;
\* then_pay: the caller is ThreeParty::pay_bill, which calls pay_bill next
ProviderReceive(read_timeout, then_pay) ==
    /\ "provider" \notin panicked
    /\ Len(sent) > 0 \/ read_timeout
    /\ \E r \in {receive_billing_information(LinesOf(wan_up), provider_prices,
                                              METER_KEY)} :
       IF r.status = "block"
       THEN /\ read_timeout
            /\ recv' = [NoRecv EXCEPT !.status = "panic_timeout",
                                      !.prices = provider_prices,
                                      !.before = bill_total, !.after = bill_total]
            /\ Panic("provider")
            /\ UNCHANGED << wan_up, sent, bill_total, last_pay >>
       ELSE
       \E total \in {AddToTotal(bill_total, r.bill)} :
       \E status \in {IF r.status # "checked" THEN r.status
                      ELSE IF overflow_checks /\ ~InI64(total) THEN "panic_overflow"
                      ELSE "accepted"} :
       \E after \in {IF status = "accepted" THEN Wrap64(total) ELSE bill_total} :
           /\ wan_up' = DropLines(wan_up, r.used)
           /\ sent' = Tail(sent)
           /\ recv' = [status |-> status, bill |-> r.bill, a |-> r.a,
                       length |-> r.length, commitments |-> r.commitments,
                       others |-> r.others,
                       weights |-> IF IndexPanics(r.others) THEN << >>
                                   ELSE [i \in 1 .. Len(r.others) |->
                                            RowPrice(provider_prices, r.others, i)],
                       prices |-> provider_prices, before |-> bill_total,
                       after |-> after, proof |-> Head(sent)]
           /\ IF status = "accepted"
              THEN /\ last_pay' =
                          IF then_pay
                          THEN PayRecord(after, last_pay.due + r.bill,
                                         last_pay.bills + 1)
                          ELSE [last_pay EXCEPT !.due = @ + r.bill,
                                                !.bills = @ + 1]
                   /\ bill_total' = IF then_pay THEN TotalAfterPay(after) ELSE after
                   /\ UNCHANGED panicked
              ELSE IF status = "return_zero"
              THEN /\ last_pay' =
                          IF then_pay
                          THEN PayRecord(after, last_pay.due, last_pay.bills)
                          ELSE last_pay
                   /\ bill_total' = IF then_pay THEN TotalAfterPay(after) ELSE after
                   /\ UNCHANGED panicked
              ELSE /\ Panic("provider")
                   /\ bill_total' = after
                   /\ UNCHANGED last_pay
    /\ UNCHANGED << som_vars, dhparams, codec, overflow_checks, lan, wan_down, consumption_table,
                    customer_prices, provider_prices, now, readings, lan_log,
                    last_read,
                    down_log, last_prices, last_send >>

\* ProviderState.receive_billing_information on a channel that blocks
ReceiveBillingInformation == ProviderReceive(FALSE, FALSE)

\* ThreeParty::pay_bill: receive_billing_information, then pay_bill
ThreePartyPayBill == ProviderReceive(FALSE, TRUE)

(***************************************************************************)
(* ProviderState.pay_bill                                                  *)
(***************************************************************************)
PayBill ==
    /\ "provider" \notin panicked
    /\ last_pay' = [n |-> 1, ret |-> bill_total, due |-> 0, bills |-> 0,
                    owed |-> last_pay.due, after |-> TotalAfterPay(bill_total),
                    again |-> last_pay.n = 1 /\ last_pay.bills = 0]
    /\ bill_total' = TotalAfterPay(bill_total)
    /\ UNCHANGED << som_vars, dhparams, codec, overflow_checks, panicked, lan, wan_up, wan_down,
                    consumption_table, customer_prices, provider_prices, now,
                    readings, lan_log, last_read, sent, recv,
                    down_log, last_prices, last_send >>

(***************************************************************************)
(* ProviderState.change_prices -> common::change_prices                    *)
(***************************************************************************)
\* what channel.write(&sbuf) did: Ok(sbuf.len()), Ok of fewer bytes, or Err
WriteOutcomes == {"full", "short", "err"}

\* a provider that stores the table before it sends it
ProviderPricesAfter_stored_first(held, prices, outcome) == prices

\* self.prices = *prices is reached when common::change_prices returned
ProviderPricesAfter(held, prices, outcome) ==
    IF outcome = "full" THEN prices ELSE held

\* change_prices on a provider whose SystemTime::now() reads t
ChangePricesAt(prices, outcome, t) ==
    /\ "provider" \notin panicked
    /\ Len(down_log) < MaxBlobs
    /\ outcome \in WriteOutcomes
    /\ \E sbuf \in {PriceBlob(prices, PROVIDER_KEY, t)} :
           wan_down' = wan_down \o (CASE outcome = "full" -> sbuf
                                      [] outcome = "short" -> SubSeq(sbuf, 1, SIGNATUREBYTES)
                                      [] OTHER -> << >>)
    /\ down_log' = IF outcome = "err" THEN down_log
                   ELSE Append(down_log, Blob(prices, t, outcome = "full"))
    /\ provider_prices' = ProviderPricesAfter(provider_prices, prices, outcome)
    /\ IF outcome = "full" THEN UNCHANGED panicked ELSE Panic("provider")
    /\ UNCHANGED << som_vars, dhparams, codec, overflow_checks, lan, wan_up, consumption_table,
                    customer_prices, bill_total, now, readings, lan_log, last_read,
                    sent, recv, last_pay, last_prices, last_send >>

\* change_prices on a provider whose clock agrees with the customer's
ChangePrices(prices, outcome) == ChangePricesAt(prices, outcome, now)

(***************************************************************************)
(* SystemTime::now(): the clock both parties read                          *)
(***************************************************************************)
\* a second passes, or a whole freshness window
TimeSteps == {1, FRESH_SECS}

\* the steps the clock has taken to show t
Ticks(t) == (t \div FRESH_SECS) + (t % FRESH_SECS)

Tick(d) ==
    /\ d \in TimeSteps
    /\ Ticks(now + d) <= MaxTicks
    /\ now' = now + d
    /\ UNCHANGED << som_vars, dhparams, codec, overflow_checks, panicked, lan, wan_up, wan_down,
                    consumption_table, customer_prices, provider_prices, bill_total,
                    readings, lan_log, last_read, sent, recv, last_pay, down_log,
                    last_prices, last_send >>

(***************************************************************************)
(* SignOnMeter: the meter prices each reading itself and signs the total   *)
(***************************************************************************)
\* SignOnMeter::change_prices: the signed table is written; nothing else is
SomChangePrices(prices) ==
    /\ "som_server" \notin panicked
    /\ Len(som_log.blobs) < MaxBlobs
    /\ som_down' = som_down \o sign(f32_prices_to_bytes(prices, 0, << >>), PROVIDER_KEY)
    /\ som_log' = [som_log EXCEPT
                       !.blobs = Append(@, [prices |-> prices, time |-> now])]
    /\ UNCHANGED << som_up, meter_prices, meter_running_total, server_running_total,
                    three_party_vars, dhparams, codec, overflow_checks, panicked, now >>

\* running_total += (prices[time] as f64) * (units_consumed as f64)
SomTotalAfter(running_total, prices, units_consumed, hour_of_week) ==
    running_total + prices[hour_of_week] * units_consumed

\* history: the table the server sent last, if any reached the meter's
\* channel since the consume before, else the table the meter holds
SomInForce ==
    IF som_log.blobs # << >> THEN som_log.blobs[Len(som_log.blobs)].prices
    ELSE meter_prices

\* SignOnMeter::consume
SomConsume(units_consumed, hour_of_week) ==
    /\ "som_meter" \notin panicked
    /\ som_log.consumed < MaxSomReadings
    /\ IF ~som_is_valid(units_consumed, hour_of_week)
       THEN /\ Panic("som_meter")
            /\ UNCHANGED << som_vars >>
       ELSE \E r \in {som_read_prices(som_down, PROVIDER_KEY, meter_prices, 0)} :
            IF r.status # "ok"
            THEN \* the updates before the one that is fatal were installed
                 /\ Panic("som_meter")
                 /\ meter_prices' = r.prices
                 /\ som_log' = [som_log EXCEPT !.read = r.status]
                 /\ UNCHANGED << som_down, som_up, meter_running_total,
                                 server_running_total >>
            ELSE /\ som_down' = << >>
                 /\ meter_prices' = r.prices
                 /\ meter_running_total' =
                        SomTotalAfter(meter_running_total, r.prices,
                                      units_consumed, hour_of_week)
                 /\ som_log' = [som_log EXCEPT
                        !.read = "ok",
                        !.blobs = << >>,
                        !.installed = SubSeq(som_log.blobs, 1, r.n),
                        !.at = now,
                        !.consumed = @ + 1,
                        !.expected = @ + SomInForce[hour_of_week] * units_consumed]
                 /\ UNCHANGED << som_up, server_running_total, panicked >>
    /\ UNCHANGED << three_party_vars, dhparams, codec, overflow_checks, now >>

\* what send_billing_information leaves in running_total
SomTotalAfterSend_kept(running_total) == running_total

SomTotalAfterSend(running_total) == 0

\* SignOnMeter::send_billing_information
SomSendBillingInformation ==
    /\ "som_meter" \notin panicked
    /\ Len(som_log.bills) < MaxBuffered
    /\ som_up' = som_up \o sign(f64_to_bytes(meter_running_total), METER_KEY)
    /\ meter_running_total' = SomTotalAfterSend(meter_running_total)
    /\ som_log' = [som_log EXCEPT
                       !.bills = Append(@, [sent |-> meter_running_total,
                                            expected |-> som_log.expected]),
                                  !.expected = 0]
    /\ UNCHANGED << som_down, meter_prices, server_running_total,
                    three_party_vars, dhparams, codec, overflow_checks, panicked, now >>

\* the errors a read of the server's channel can end with when no bill is
\* buffered: none on a channel without a read timeout, which waits
ReadErrors == {"none", "TimedOut", "WouldBlock"}

\* SignOnMeter::pay_bill: err is how a read that finds no bill ends
SomPayBill(err) ==
    /\ "som_server" \notin panicked
    /\ err \in ReadErrors
    /\ IF Len(som_up) >= BILL_BUF_LEN
       THEN \E ver \in {verify(SubSeq(som_up, 1, BILL_BUF_LEN), METER_KEY)} :
            /\ som_up' = SubSeq(som_up, BILL_BUF_LEN + 1, Len(som_up))
            /\ IF ~ver.ok
               THEN /\ Panic("som_server")
                    /\ UNCHANGED << server_running_total >>
                    /\ som_log' = [som_log EXCEPT !.bills = Tail(@)]
               ELSE /\ server_running_total' = 0
                    /\ som_log' = [som_log EXCEPT
                           !.bills = Tail(@),
                           !.pay = [n |-> IF som_log.pay.n < MaxBuffered
                                          THEN som_log.pay.n + 1 ELSE som_log.pay.n,
                                    ret |-> server_running_total
                                            + f64_from_bytes(ver.val),
                                    sent |-> Head(som_log.bills).sent,
                                    expected |-> Head(som_log.bills).expected]]
                    /\ UNCHANGED panicked
       ELSE /\ err # "none"
            /\ UNCHANGED << som_up, server_running_total >>
            /\ IF err = "TimedOut"
               THEN /\ som_log.timeouts < MaxTimeouts
                    /\ som_log' = [som_log EXCEPT !.timeouts = @ + 1]
                    /\ UNCHANGED panicked
               ELSE /\ Panic("som_server")
                    /\ UNCHANGED som_log
    /\ UNCHANGED << som_down, meter_prices, meter_running_total,
                    three_party_vars, dhparams, codec, overflow_checks, now >>

(***************************************************************************)
(* read_or_gen_params: the commitment parameters a party starts with.      *)
(* read_dhparams, gen_dh_params and write_dhparams belong to proj_crypto   *)
(* (external): a file holds a parameter set or nothing that can be read,   *)
(* generation picks a set at random, and a write may fail.                 *)
(***************************************************************************)
\* the parameter sets gen_dh_params may come up with
ParamChoices == 1 .. 3

\* commitments::read_dhparams(path)
read_dhparams(file) ==
    IF file = 0 THEN [ok |-> FALSE, val |-> 0] ELSE [ok |-> TRUE, val |-> file]

\* commitments::write_dhparams(&params, path), whose result is dropped
write_dhparams(file, params, write_ok) == IF write_ok THEN params ELSE file

ReadOrGenParams(generated, write_ok) ==
    /\ Len(dhparams.returned) < MaxCalls
    /\ generated \in ParamChoices
    /\ \E stored \in {read_dhparams(dhparams.file)} :
           IF stored.ok
           THEN dhparams' = [dhparams EXCEPT !.returned = Append(@, stored.val)]
           ELSE dhparams' = [dhparams EXCEPT
                                 !.file = write_dhparams(@, generated, write_ok),
                                 !.returned = Append(@, generated)]
    /\ UNCHANGED << som_vars, three_party_vars, codec, overflow_checks, panicked, now >>

\* read_or_gen_params in a thread that runs beside others: first the match
\* on read_dhparams, which returns what the file holds or goes on to the
\* Err arm (pending counts the calls that are in that arm) ...
ParamsRead ==
    /\ Len(dhparams.returned) + dhparams.pending < MaxCalls
    /\ \E stored \in {read_dhparams(dhparams.file)} :
           IF stored.ok
           THEN dhparams' = [dhparams EXCEPT !.returned = Append(@, stored.val)]
           ELSE dhparams' = [dhparams EXCEPT !.pending = @ + 1]
    /\ UNCHANGED << som_vars, three_party_vars, codec, overflow_checks, panicked, now >>

\* ... then the Err arm: gen_dh_params, write_dhparams, return params
ParamsGenWrite(generated, write_ok) ==
    /\ dhparams.pending > 0
    /\ generated \in ParamChoices
    /\ dhparams' = [dhparams EXCEPT
                        !.pending = @ - 1,
                        !.file = write_dhparams(@, generated, write_ok),
                        !.returned = Append(@, generated)]
    /\ UNCHANGED << som_vars, three_party_vars, codec, overflow_checks, panicked, now >>

(***************************************************************************)
(* tests::stringify: stringify_bytes, then unstringify_bytes of the result *)
(***************************************************************************)
TestStringify ==
    /\ codec.stage = "input"
    /\ \E string \in {stringify_bytes(codec.bytes)} :
           codec' = [codec EXCEPT !.stage = "done", !.string = string,
                                  !.back = unstringify_bytes(string)]
    /\ UNCHANGED << som_vars, three_party_vars, dhparams, overflow_checks,
                    panicked, now >>

(***************************************************************************)
(* Specifications                                                          *)
(***************************************************************************)
\* the readings the harness is driven with: the largest reading in the
\* dear hour and a small reading in a free hour
HarnessReadings == { Reading(I32_MAX, 0, PARAMS_1 - 1), Reading(1, HOURS - 1, 1) }

\* the honest system, its client driven as the test harness drives it
Next ==
    \/ \E rd \in HarnessReadings : Consume(rd.cons, rd.hour, rd.a)
    \/ SendBillingInformation(0, FALSE)
    \/ ReceiveBillingInformation
    \/ PayBill

Spec == Init /\ [][Next]_vars

\* the meter and the customer's side of the meter channel, as the shells
\* drive them: any reading, valid or not, and any number of buffered records
MaxLanReadings == 2
LanCons == {0, 10, I32_MAX, -1}
LanHours == {0, HOURS - 1, HOURS}
LanA == {0, PARAMS_1 - 1}

NextLan ==
    \/ \E c \in LanCons, h \in LanHours, a \in LanA :
           readings < MaxLanReadings /\ MeterConsume(c, h, a)
    \/ ReadMeterMessages

SpecLan == Init /\ [][NextLan]_vars

\* the provider facing a customer that may send dishonest proofs
\* the harness over a provider channel whose writes can fail or fall short
NextWrites ==
    \/ \E rd \in HarnessReadings : Consume(rd.cons, rd.hour, rd.a)
    \/ \E fail_at \in 0 .. (MaxReadings + 1), short \in BOOLEAN :
           SendBillingInformation(fail_at, short)
    \/ ReceiveBillingInformation
    \/ PayBill

SpecWrites == Init /\ [][NextWrites]_vars

\* a table with a negative price
NegativePrices == [h \in Hours |-> IF h = 0 THEN -1 ELSE 1]

\* the tables the provider shell is asked to change to
\* a table whose prices use all four bytes: the largest and the smallest i32
\* at their real width, and a price whose bytes differ from one another
WidePrices ==
    [h \in Hours |-> IF h = 0 THEN 2147483647
                     ELSE IF h = 1 THEN -2147483647 - 1
                     ELSE 66051]

PriceTables == {WidePrices, NegativePrices}

\* the provider and customer shells on the price channel, as time passes
NextPrices ==
    \/ \E prices \in PriceTables, outcome \in WriteOutcomes :
           ChangePrices(prices, outcome)
    \/ \E d \in TimeSteps : Tick(d)
    \/ ReadProviderMessages

SpecPrices == Init /\ [][NextPrices]_vars

\* the meter channel with records the meter did not write
ForgeReadings == { Reading(10, 0, 1), Reading(1, HOURS - 1, 0) }

NextForge ==
    \/ \E rd \in ForgeReadings : MeterConsume(rd.cons, rd.hour, rd.a)
    \/ \E rd \in ForgeReadings, k \in ForgeKinds : LanInject(rd.cons, rd.hour, rd.a, k)
    \/ ReadMeterMessages

SpecForge == Init /\ [][NextForge]_vars

MaxDishonestReadings == 2
TamperValues == {0, 1}

\* the readings of the harness, and one for an hour after the week's last
DishonestReadings == HarnessReadings \cup { Reading(1, HOURS, 1) }

NextDishonest ==
    \/ \E rd \in DishonestReadings :
           readings < MaxDishonestReadings /\ Consume(rd.cons, rd.hour, rd.a)
    \/ \E k \in DishonestKinds, i \in 1 .. MaxDishonestReadings, v \in TamperValues :
           DishonestSend(k, i, v)
    \/ SendBillingInformation(0, FALSE)
    \/ ReceiveBillingInformation
    \/ PayBill

SpecDishonest == Init /\ [][NextDishonest]_vars

\* the sign-on-meter parties; the tables of the three-party protocol and
\* the overflow checks of the build play no part in them
InitSom == Init /\ overflow_checks /\ provider_prices = InitialPrices

SomTables == {PeakPrices, NegativePrices}
SomUnits == {-1, 1, 2}

\* the server changes prices, the meter consumes and sends its total, the
\* server is paid
NextSom ==
    \/ \E prices \in SomTables : SomChangePrices(prices)
    \/ \E units_consumed \in SomUnits, hour_of_week \in 0 .. HOURS :
           SomConsume(units_consumed, hour_of_week)
    \/ SomSendBillingInformation
    \/ SomPayBill("none")

SpecSom == InitSom /\ [][NextSom]_vars

\* the server changes prices while time passes, and the meter consumes
NextSomPrices ==
    \/ \E prices \in SomTables : SomChangePrices(prices)
    \/ \E d \in TimeSteps : Tick(d)
    \/ \E units_consumed \in SomUnits, hour_of_week \in 0 .. HOURS :
           SomConsume(units_consumed, hour_of_week)

SpecSomPrices == InitSom /\ [][NextSomPrices]_vars

\* the harness of mod.rs run for each implementation of BillingProtocol in
\* turn: first the sign-on-meter parties until the server's pay_bill has
\* returned, then the three-party ones.  The server changes the prices once
\* and waits to be paid; the meter consumes and sends its bill once.
SomTestOver == som_log.pay.n > 0 \/ "som_server" \in panicked

NextTrait ==
    \/ /\ ~SomTestOver
       /\ som_log.blobs = << >> /\ som_log.installed = << >>
       /\ SomChangePrices(PeakPrices)
    \/ /\ ~SomTestOver
       /\ som_log.bills = << >>
       /\ SomConsume(2, 0)
    \/ /\ ~SomTestOver
       /\ som_log.bills = << >>
       /\ SomSendBillingInformation
    \/ /\ ~SomTestOver
       /\ SomPayBill("none")
    \/ /\ SomTestOver
       /\ \E r \in HarnessReadings : Consume(r.cons, r.hour, r.a)
    \/ /\ SomTestOver
       /\ SendBillingInformation(0, FALSE)
    \/ /\ SomTestOver
       /\ ThreePartyPayBill

SpecTrait == Init /\ [][NextTrait]_vars

\* the same parties on channels that have a read timeout: a read of the
\* paying side that finds no complete bill may end with an error instead of
\* waiting
NextTimeouts ==
    \/ /\ ~SomTestOver
       /\ som_log.bills = << >>
       /\ SomSendBillingInformation
    \/ /\ ~SomTestOver
       /\ \E err \in ReadErrors : SomPayBill(err)
    \/ /\ SomTestOver
       /\ \E r \in HarnessReadings : Consume(r.cons, r.hour, r.a)
    \/ /\ SomTestOver
       /\ SendBillingInformation(0, FALSE)
    \/ /\ SomTestOver
       /\ \E read_timeout \in BOOLEAN : ProviderReceive(read_timeout, TRUE)

SpecTimeouts == Init /\ [][NextTimeouts]_vars

\* parties that start one after the other on the same parameter path
NextParams ==
    \E generated \in ParamChoices, write_ok \in BOOLEAN :
        ReadOrGenParams(generated, write_ok)

SpecParams == Init /\ [][NextParams]_vars

\* parties that start beside one another on the same parameter path, as the
\* server thread and the meter thread of the harness do
NextParamsRace ==
    \/ ParamsRead
    \/ \E generated \in ParamChoices, write_ok \in BOOLEAN :
           ParamsGenWrite(generated, write_ok)

SpecParamsRace == Init /\ [][NextParamsRace]_vars

\* the meter and the customer shells: the meter signs readings, the
\* customer reads them and sends its bill, which the provider receives
ShellCons == {1, 2}
ShellHours == {0, HOURS - 1}

NextShell ==
    \/ \E c \in ShellCons, h \in ShellHours : MeterConsume(c, h, 1)
    \/ ReadMeterMessages
    \/ SendBillingInformation(0, FALSE)
    \/ ReceiveBillingInformation

SpecShell == Init /\ [][NextShell]_vars

(***************************************************************************)
(* Properties                                                              *)
(***************************************************************************)
\* the last proof reached the comparison of the two commitments
ReachedCheck == recv.status \in {"accepted", "panic_mismatch", "panic_overflow"}

\* Commit(bill, a) of the declared totals against the price-weighted
\* combination of the row commitments the provider parsed
CommitmentsEqual ==
    from_opening(recv.bill, recv.a)
        = CalculatedCommit(recv.commitments, recv.others, recv.prices, recv.length)

\* the commitment the meter made for a ledger row
CommitOf(row) == from_opening(row.cons, row.a)

\* C1: an honest proof of one or more rows, built by
\* send_billing_information under the very table the provider holds, passes
\* the provider's check: the commitment to the declared (bill, a) equals
\* the price-weighted combination of the row commitments.
C1_HonestProofAccepted ==
    (/\ recv.proof.kind = "honest"
     /\ Len(recv.proof.rows) >= 1
     /\ recv.proof.prices = recv.prices)
        => (recv.status \in {"accepted", "panic_overflow"} /\ CommitmentsEqual)

\* C2: for a proof of one or more rows that reaches the check, the declared
\* bill is added to bill_total if and only if the two commitments are
\* equal; on mismatch nothing is added.
C2_AddsIffCommitmentsEqual ==
    (ReachedCheck /\ recv.length >= 1)
        => ((recv.status = "accepted" /\ recv.after = recv.before + recv.bill)
                <=> CommitmentsEqual)

\* C3 as stated: a proof billing one row with a cons other than the
\* committed one (signed commitment unchanged, other rows honest) is
\* rejected, whatever the ledger, the price table and the row.
C3_TamperedConsRejected ==
    recv.proof.kind = "cons" => recv.status = "panic_mismatch"

\* the provider's price for the hour of the row the proof tampered with
TamperedRowPrice == recv.prices[recv.proof.rows[recv.proof.row].hour]

\* C3 amended: a proof billing one row with a cons other than the committed
\* one is rejected whenever the provider's price for that row's hour is
\* not zero.
C3_TamperedConsRejectedAtNonZeroPrice ==
    (recv.proof.kind = "cons" /\ TamperedRowPrice # 0)
        => (recv.status = "panic_mismatch" /\ recv.after = recv.before)

C3_Witness ==
    /\ recv.proof.kind = "cons"
    /\ Len(recv.proof.rows) = 2
    /\ TamperedRowPrice # 0
    /\ recv.status = "panic_mismatch"

\* C4: pay_bill returns the sum of the bills accepted since the previous
\* pay_bill (or since construction) and leaves the running total 0; a
\* pay_bill right after a pay_bill returns 0.
C4_PayBillReturnsSum ==
    last_pay.n = 1 =>
        /\ last_pay.ret = last_pay.owed
        /\ last_pay.after = 0
        /\ last_pay.again => last_pay.ret = 0

\* the last proof is one receive_billing_information has to fail on: a row
\* not signed by the meter, zero rows with a bill other than 0, or totals
\* that do not match the rows
MustFail ==
    \/ recv.proof.kind \in {"forged", "hour", "bill", "blind"}
    \/ recv.status # "none" /\ recv.length = 0 /\ recv.bill # 0
    \/ recv.status \in {"panic_row", "panic_zero", "panic_mismatch"}

\* C5: when receive_billing_information fails (bad row signature, zero rows
\* with a non-zero bill, commitment mismatch) bill_total keeps the value
\* it had, the provider has stopped, and from then on neither bill_total
\* nor what pay_bill returned changes.
C5_FailureLeavesTotalAndStops ==
    /\ [](MustFail => /\ recv.after = recv.before
                      /\ bill_total = recv.before
                      /\ "provider" \in panicked)
    /\ [][("provider" \in panicked) =>
             (bill_total' = bill_total /\ last_pay' = last_pay)]_vars

C5_Witness ==
    /\ recv.proof.kind = "forged"
    /\ recv.status = "panic_row"
    /\ recv.before # 0
    /\ "provider" \in panicked

\* C6: a proof of zero rows is accepted if and only if it declares the
\* bill 0, and accepting it leaves bill_total as it was.
C6_ZeroRowsAcceptedIffBillZero ==
    (recv.status \notin {"none", "panic_parse"} /\ recv.length = 0)
        => /\ (recv.status = "return_zero" /\ "provider" \notin panicked)
                <=> (recv.bill = 0)
           /\ recv.bill # 0 => (recv.status = "panic_zero" /\ "provider" \in panicked)
           /\ recv.after = recv.before

C6_Witness ==
    /\ recv.status = "return_zero"
    /\ recv.proof.kind = "zero"
    /\ recv.before # 0
    /\ bill_total = recv.before

\* C7: every commitment the provider weights is a commitment of a ledger
\* row the meter signed, weighted by the provider's price of the hour the
\* meter signed it with; a proof naming another hour for a signed
\* commitment never reaches the check.
C7_PricedAtSignedHour ==
    /\ ReachedCheck =>
         \A i \in 1 .. recv.length :
            \E j \in 1 .. Len(recv.proof.rows) :
                /\ recv.commitments[i] = CommitOf(recv.proof.rows[j])
                /\ recv.others[i] = recv.proof.rows[j].hour
                /\ recv.weights[i] = recv.prices[recv.proof.rows[j].hour]
    /\ recv.proof.kind = "hour" => recv.status = "panic_row"

C7_Witness ==
    /\ recv.proof.kind = "hour"
    /\ recv.status = "panic_row"
    /\ recv.prices = PeakPrices
    /\ recv.proof.rows[recv.proof.row].hour = 0

\* C9: the record meter_consume writes for a valid reading, parsed by
\* customer_read_consumption under the meter's key, gives one ledger row
\* with the reading's cons and hour (and blinding factor); a single
\* buffered record gives exactly one row.
C9_RecordRoundTrip ==
    (last_read.status # "none" /\ last_read.buffered >= 1)
        => /\ last_read.status = "ok"
           /\ last_read.appended >= 1
           /\ last_read.buffered = 1 => last_read.appended = 1
           /\ Len(consumption_table) > last_read.rows_before
           /\ LET row == consumption_table[last_read.rows_before + 1]
              IN  /\ row.cons = last_read.first.cons
                  /\ row.other = last_read.first.hour
                  /\ row.a = last_read.first.a

C9_Witness ==
    /\ last_read.status = "ok"
    /\ last_read.first.cons = 10
    /\ last_read.first.hour = HOURS - 1
    /\ Len(consumption_table) = 1
    /\ consumption_table[1].cons = 10

\* C10: with k >= 1 complete records buffered on the meter channel, one
\* read_meter_messages appends k rows to the ledger.
C10_ReadDrainsAll ==
    (last_read.status = "ok" /\ last_read.buffered >= 1)
        => last_read.appended = last_read.buffered

\* C11: a read_meter_messages that finds no record buffered on the meter
\* channel returns normally and leaves the ledger as it was.
C11_EmptyReadReturns ==
    (last_read.status # "none" /\ last_read.buffered = 0)
        => /\ last_read.status = "ok"
           /\ last_read.appended = 0
           /\ "customer" \notin panicked

\* whether a signature line carries a signature of the meter on its payload
SignatureVerifies(line) ==
    LET Checked(sig) == sig.ok /\ verify(sig.val, METER_KEY).ok
    IN  Checked(unstringify_bytes(line))

\* C12: a record whose signature line does not verify under the meter's
\* key makes read_meter_messages fail without appending a row, and every
\* row of the ledger carries a signed commitment that verifies.
C12_UnverifiedRecordRejected ==
    /\ (/\ last_read.status # "none"
        /\ last_read.buffered >= 1
        /\ ~SignatureVerifies(last_read.signature))
           => /\ last_read.status = "panic"
              /\ last_read.appended = 0
              /\ "customer" \in panicked
    /\ \A i \in 1 .. Len(consumption_table) :
           SignatureVerifies(consumption_table[i].signed_commitment)

C12_Witness ==
    /\ last_read.status = "panic"
    /\ last_read.buffered >= 1
    /\ ~SignatureVerifies(last_read.signature)
    /\ Len(consumption_table) = 1
    /\ "customer" \in panicked

\* C13: send_billing_information empties the ledger only when the header
\* and every row line were written in full: a send whose write fails or is
\* short leaves the ledger as it was, a send that completes has written
\* every row and leaves the ledger empty, and rows leave the ledger in no
\* other way, so each row goes out in exactly one proof.
C13_LedgerClearedAfterWrites ==
    /\ [](/\ last_send.status = "failed"
              => /\ last_send.after = last_send.ledger
                 /\ consumption_table = last_send.ledger
          /\ last_send.status = "ok"
              => /\ last_send.after = << >>
                 /\ last_send.written =
                        ProofBytes(last_send.bill,
                                   BlindLoop(last_send.ledger, last_send.prices, 0),
                                   Len(last_send.ledger),
                                   RowLines(last_send.ledger)))
    /\ [][Len(consumption_table') < Len(consumption_table)
            => /\ last_send'.status = "ok"
               /\ last_send'.ledger = consumption_table
               /\ consumption_table' = << >>]_vars

C13_Witness ==
    /\ last_send.status = "failed"
    /\ last_send.fail_at >= 2
    /\ last_send.written # << >>
    /\ Len(consumption_table) >= 2

\* C14: with an empty ledger send_billing_information writes the proof
\* "0\n0\n0\n" (bill 0, zero rows, no row line) whatever the price table,
\* and the provider accepts such a proof without changing bill_total; a
\* send that follows a send with no reading in between is such a proof.
C14_EmptyLedgerZeroProof ==
    /\ (last_send.status = "ok" /\ last_send.ledger = << >>)
           => /\ last_send.bill = 0
              /\ last_send.written = << 48, NL, 48, NL, 48, NL >>
    /\ (/\ recv.status # "none"
        /\ recv.proof.kind = "honest"
        /\ recv.proof.rows = << >>)
           => /\ recv.status = "return_zero"
              /\ recv.bill = 0
              /\ recv.length = 0
              /\ recv.after = recv.before
              /\ "provider" \notin panicked

\* a first proof with rows was accepted, the send after it was a zero-row
\* proof and the provider accepted that too
C14_Witness ==
    /\ recv.status = "return_zero"
    /\ recv.proof.kind = "honest"
    /\ recv.before > 0
    /\ last_send.ledger = << >>
    /\ last_send.status = "ok"
    /\ readings >= 1
    /\ consumption_table = << >>

\* the sum of cons * price[hour] over the rows of a ledger, in the integers
RECURSIVE ExactBill(_, _)
ExactBill(ledger, prices) ==
    IF Len(ledger) = 0 THEN 0
    ELSE Head(ledger).cons * prices[Head(ledger).other]
             + ExactBill(Tail(ledger), prices)

\* C15: the bill send_billing_information writes is the exact integer sum
\* of cons_i * price[hour_i] over the rows of the ledger: the 64-bit
\* accumulator neither overflows nor wraps, however many rows there are.
C15_BillIsExactSum ==
    last_send.status # "none"
        => /\ last_send.status = "ok"
           /\ last_send.bill = ExactBill(last_send.ledger, last_send.prices)

\* a price update written in full whose timestamp is older than the window
\* when it is read
Stale(blob, at) == blob.complete /\ at - blob.time > FRESH_SECS

\* every buffered update was written in full and is inside the window
AllFresh(buffered, at) ==
    \A i \in 1 .. Len(buffered) :
        buffered[i].complete /\ at - buffered[i].time <= FRESH_SECS

\* C16: a validly signed price update older than two months when it is
\* received makes check_for_new_prices fail and the customer keeps the
\* table it held; an update inside the window is accepted and
\* read_provider_messages replaces the held table with it.
C16_StaleUpdateRejected ==
    /\ (/\ last_prices.status # "none"
        /\ \E i \in 1 .. Len(last_prices.buffered) :
               Stale(last_prices.buffered[i], last_prices.at))
           => /\ last_prices.status = "panic"
              /\ last_prices.after = last_prices.before
              /\ customer_prices = last_prices.before
              /\ "customer" \in panicked
    /\ (/\ last_prices.status # "none"
        /\ Len(last_prices.buffered) = 1
        /\ AllFresh(last_prices.buffered, last_prices.at))
           => /\ last_prices.status = "ok"
              /\ last_prices.after = last_prices.buffered[1].prices
              /\ customer_prices = last_prices.buffered[1].prices

C16_Witness ==
    /\ last_prices.status = "panic"
    /\ Len(last_prices.buffered) = 1
    /\ Stale(last_prices.buffered[1], last_prices.at)
    /\ last_prices.buffered[1].prices # last_prices.before
    /\ customer_prices = last_prices.before

NonNegative(prices) == \A h \in Hours : prices[h] >= 0

\* C17: no table with a negative price is put on the wire by change_prices
\* or installed by check_for_new_prices, and no meter record names an hour
\* outside the week.
C17_NegativePriceNeverWritten ==
    /\ \A i \in 1 .. Len(down_log) : NonNegative(down_log[i].prices)
    /\ NonNegative(customer_prices)
    /\ \A i \in 1 .. Len(lan_log) : lan_log[i].hour < HOURS

\* C19: check_for_new_prices reads every complete update buffered on the
\* channel, in the order written, and returns the table of the last one;
\* with nothing buffered it returns nothing, without error, and
\* read_provider_messages leaves the held table as it was.
C19_LastUpdateWins ==
    /\ (last_prices.status # "none" /\ last_prices.buffered = << >>)
           => /\ last_prices.status = "ok"
              /\ last_prices.after = last_prices.before
              /\ "customer" \notin panicked
    /\ (/\ last_prices.status # "none"
        /\ last_prices.buffered # << >>
        /\ AllFresh(last_prices.buffered, last_prices.at))
           => /\ last_prices.status = "ok"
              /\ last_prices.left = 0
              /\ last_prices.after =
                     last_prices.buffered[Len(last_prices.buffered)].prices

C19_Witness ==
    /\ last_prices.status = "ok"
    /\ Len(last_prices.buffered) = 2
    /\ last_prices.buffered[1].prices # last_prices.buffered[2].prices
    /\ last_prices.after = last_prices.buffered[2].prices
    /\ last_prices.before # last_prices.after

\* C20: change_prices replaces the provider's table exactly when the signed
\* update was written in full: a step that changes the table appends the
\* whole update for the new table to the channel, a write that fails or
\* falls short leaves the table as it was, and what the customer reads or
\* does not read never changes it.
C20_TableReplacedAfterWrite ==
    [][/\ provider_prices' # provider_prices
           => /\ down_log' = Append(down_log, Blob(provider_prices', now, TRUE))
              /\ wan_down' = wan_down \o PriceBlob(provider_prices', PROVIDER_KEY, now)
       /\ (Len(down_log') > Len(down_log) /\ down_log'[Len(down_log')].complete)
           => provider_prices' = down_log'[Len(down_log')].prices
       /\ ("provider" \in panicked' /\ "provider" \notin panicked)
           => provider_prices' = provider_prices
       /\ last_prices' # last_prices => provider_prices' = provider_prices]_vars

\* a table was replaced by an update the customer has not read
C20_Witness ==
    /\ last_prices.status = "none"
    /\ Len(down_log) = 1
    /\ down_log[1].complete
    /\ provider_prices = down_log[1].prices
    /\ provider_prices # customer_prices
    /\ "provider" \notin panicked

\* C18: meter_consume fails on an invalid reading (an hour outside the
\* week or negative units) before it writes a byte: a step in which the
\* meter fails leaves the channel as it was, and every record on the
\* channel is a whole record of a valid reading.
C18_InvalidReadingWritesNothing ==
    /\ [](/\ \A i \in 1 .. Len(lan_log) :
                 lan_log[i].hour <= HOURS - 1 /\ lan_log[i].cons >= 0
          /\ Len(LinesOf(lan)) = 2 * Len(lan_log))
    /\ [][("meter" \in panicked' /\ "meter" \notin panicked)
              => (lan' = lan /\ lan_log' = lan_log /\ readings' = readings)]_vars

\* the meter failed on a reading after it had written a record
C18_Witness ==
    /\ "meter" \in panicked
    /\ readings = 1
    /\ Len(lan_log) = 1
    /\ Len(LinesOf(lan)) = 2

\* C21: the sign-on-meter meter installs no validly signed price update that
\* is older than the freshness window when consume reads it.
C21_SomStaleUpdateRejected ==
    \A i \in 1 .. Len(som_log.installed) :
        som_log.at - som_log.installed[i].time <= FRESH_SECS

\* C22: pay_bill of either implementation returns only when the peer's
\* send_billing_information has written a bill that it has not read yet,
\* and the value it returns is the bill of that send (the oldest one that is
\* still unread, when there are several).
RECURSIVE SentSum(_, _)
SentSum(rows, prices) ==
    IF Len(rows) = 0 THEN 0
    ELSE Head(rows).cons * prices[Head(rows).hour] + SentSum(Tail(rows), prices)

\* the bill in the header of a proof an honest send wrote
SentBill(proof) == Wrap64(SentSum(proof.rows, proof.prices))

C22_PayBillWaitsForTheBill ==
    [][/\ ("provider" \notin panicked'
              /\ (last_pay' # last_pay \/ Len(sent') < Len(sent)))
           => /\ Len(sent) > 0
              /\ Head(sent).kind = "honest"
              /\ last_pay'.n = 1
              /\ last_pay'.ret = SentBill(Head(sent))
       /\ ("som_server" \notin panicked' /\ som_log'.pay # som_log.pay)
           => /\ Len(som_log.bills) > 0
              /\ som_log'.pay.ret = Head(som_log.bills).sent]_vars

C22_Witness ==
    /\ som_log.pay.n = 1
    /\ som_log.pay.ret > 0
    /\ last_pay.n = 1
    /\ last_pay.ret > 0
    /\ last_pay.ret = last_send.bill
    /\ panicked = {}

\* C23: a read timeout while the paying side waits for a bill is answered by
\* sleeping and reading again; it aborts neither SignOnMeter.pay_bill nor
\* ProviderState.receive_billing_information.
C23_ReadTimeoutRetried ==
    /\ recv.status # "panic_timeout"
    /\ "som_server" \notin panicked

\* C24: the value the sign-on-meter server's pay_bill returns is the sum of
\* prices[hour] * units over the readings consumed before the send, each
\* priced with the table in force at its consume, and the meter's running
\* total is that sum until send_billing_information resets it to 0.
C24_SomBillIsPricedSum ==
    /\ som_log.pay.n > 0 => som_log.pay.ret = som_log.pay.expected
    /\ "som_meter" \notin panicked => meter_running_total = som_log.expected
    /\ \A i \in 1 .. Len(som_log.bills) :
           som_log.bills[i].sent = som_log.bills[i].expected

C24_Witness ==
    /\ som_log.pay.n > 0
    /\ som_log.pay.ret = 3 * I32_MAX
    /\ som_log.consumed = MaxSomReadings
    /\ som_log.installed # << >>
    /\ meter_running_total = 0
    /\ panicked = {}

\* C25: every call of read_or_gen_params on a path returns the parameters
\* the call before it on that path returned: they were read from the file,
\* or generated and persisted by the first call.
C25_LaterCallSameParams ==
    \A i \in 1 .. Len(dhparams.returned) - 1 :
        dhparams.returned[i + 1] = dhparams.returned[i]

\* C26: every update change_prices writes in full has the fixed length
\* check_for_new_prices reads per iteration, so a read that finds n fresh
\* updates consumes all n and leaves nothing, and the table it returns
\* equals the table sent at every index.
C26_PriceBlobRoundTrip ==
    /\ ("customer" \notin panicked
            /\ \A i \in 1 .. Len(down_log) : down_log[i].complete)
           => Len(wan_down) = Len(down_log) * BUF_LEN
    /\ \A i \in 1 .. Len(down_log) :
           /\ Len(prices_to_bytes(down_log[i].prices)) = 4 * HOURS
           /\ PricesOfData(prices_to_bytes(down_log[i].prices)) = down_log[i].prices
    /\ (/\ last_prices.status = "ok"
        /\ last_prices.buffered # << >>)
           => /\ last_prices.left = 0
              /\ \A h \in Hours :
                     last_prices.after[h] =
                         last_prices.buffered[Len(last_prices.buffered)].prices[h]

C26_Witness ==
    /\ last_prices.status = "ok"
    /\ Len(last_prices.buffered) = MaxBlobs
    /\ last_prices.buffered[1].prices = NegativePrices
    /\ last_prices.after = WidePrices
    /\ customer_prices = WidePrices
    /\ last_prices.left = 0

\* the ledger the customer held when it built the last proof received, and
\* the proof send_billing_information's row order gives it
LedgerOf(rows) ==
    [i \in 1 .. Len(rows) |->
        RowOf(LinesOf(meter_message(rows[i].cons, rows[i].hour, rows[i].a,
                                    METER_KEY))[2],
              rows[i].cons, rows[i].hour, rows[i].a)]

InLedgerOrder(proof) ==
    receive_billing_information(
        LinesOf(DishonestProof("ledger", LedgerOf(proof.rows), proof.prices, 0, 0)),
        recv.prices, METER_KEY)

\* C27: a proof whose row lines are permuted under the same header gets the
\* decision of receive_billing_information, the bill and the resulting
\* bill_total that the proof with the rows in ledger order gets.
C27_OrderIndependent ==
    LET Same(r) ==
            /\ recv.bill = r.bill
            /\ r.status # "checked" => recv.status = r.status
            /\ r.status = "checked" =>
                   recv.status \in {"accepted", "panic_overflow"}
            /\ recv.status = "accepted" =>
                   recv.after = Wrap64(AddToTotal(recv.before, r.bill))
            /\ recv.status # "accepted" => recv.after = recv.before
    IN  recv.proof.kind = "permute" => Same(InLedgerOrder(recv.proof))

C27_Witness ==
    /\ recv.proof.kind = "permute"
    /\ recv.status = "accepted"
    /\ Len(recv.proof.rows) = 2
    /\ recv.proof.rows[1] # recv.proof.rows[2]
    /\ recv.others = << recv.proof.rows[2].hour, recv.proof.rows[1].hour >>
    /\ recv.bill > 0
    /\ recv.prices = PeakPrices

\* C28: a read of the meter channel appends the rows of the records it
\* takes to the end of the ledger in the order the meter wrote them, so
\* until the first send the ledger and the channel together hold every
\* reading signed; the proof lists the row lines in ledger order.
C28_LedgerInEmissionOrder ==
    /\ []((last_send.status = "none" /\ "customer" \notin panicked)
             => Len(consumption_table) + Len(lan_log) = readings)
    /\ [][/\ Len(consumption_table') > Len(consumption_table)
              => /\ consumption_table' =
                        consumption_table
                            \o LedgerOf(SubSeq(lan_log, 1,
                                   Len(consumption_table') - Len(consumption_table)))
                 /\ lan_log' = SubSeq(lan_log,
                                   Len(consumption_table') - Len(consumption_table) + 1,
                                   Len(lan_log))
          /\ Len(sent') > Len(sent)
              => /\ Len(LinesOf(last_send'.written)) = 3 + Len(consumption_table)
                 /\ \A i \in 1 .. Len(consumption_table) :
                        LinesOf(last_send'.written)[3 + i]
                            = consumption_table[i].signed_commitment]_vars

C28_Witness ==
    /\ last_send.status = "ok"
    /\ Len(last_send.ledger) = 2
    /\ last_send.ledger[1] # last_send.ledger[2]
    /\ LinesOf(last_send.written)[4] = last_send.ledger[1].signed_commitment
    /\ Len(consumption_table) = 1
    /\ readings = MaxReadings
    /\ lan_log = << >>

\* C29: every row of the customer's ledger and every row the provider has
\* parsed for its check names an hour inside the price table, so neither
\* send_billing_information nor receive_billing_information indexes the
\* table out of bounds; a row naming an hour outside the week is never
\* signed by the meter and never passes the provider's verification.
C29_HoursInBounds ==
    /\ \A i \in 1 .. Len(consumption_table) : consumption_table[i].other < HOURS
    /\ \A i \in 1 .. Len(recv.others) : recv.others[i] < HOURS
    /\ recv.status # "panic_index"
    /\ \A i \in 1 .. Len(last_send.ledger) : last_send.ledger[i].other < HOURS
    /\ recv.proof.kind = "outside" => recv.status = "panic_row"

C29_Witness ==
    /\ recv.proof.kind = "outside"
    /\ recv.status = "panic_row"
    /\ Len(recv.proof.rows) >= 1
    /\ recv.others = << >>
    /\ "meter" \in panicked
    /\ consumption_table = << >>

(***************************************************************************)
(* C30: in every reachable state, each row of the customer's ledger holds  *)
(* the opening of its own commitment: the commitment the meter signed in   *)
(* the row's signed_commitment is the commitment to the row's (cons, a),   *)
(* so the units and blinding factor of one meter_consume call are never    *)
(* filed with the commitment of another.  customer_read_consumption does   *)
(* not compare them; they agree because meter_consume writes both lines of *)
(* a record in one write and the customer reads them in pairs.             *)
(***************************************************************************)
CommitmentOf(row) == MpzFromStrRadix(split_whitespace(Payload(row))[1], 16).val

RowOpensItsCommitment(row) == from_opening(row.cons, row.a) = CommitmentOf(row)

CompensatedPrices == [h \in Hours |-> IF h = 0 THEN 3 ELSE IF h = 1 THEN 0 ELSE 1]
SparePrices == [h \in Hours |-> IF h = HOURS - 1 THEN 5 ELSE 1]
RaceTables == {CompensatedPrices, SparePrices}
RaceReadings == { Reading(1, 0, 2), Reading(2, 1, 1) }
MaxRaceReadings == 2

InitRace == Init /\ overflow_checks /\ provider_prices = InitialPrices

\* the provider changes its prices once, and is paid once
NextRace ==
    \/ \E prices \in RaceTables :
           provider_prices = InitialPrices /\ ChangePrices(prices, "full")
    \/ ReadProviderMessages
    \/ \E rd \in RaceReadings :
           readings < MaxRaceReadings /\ MeterConsume(rd.cons, rd.hour, rd.a)
    \/ ReadMeterMessages
    \/ SendBillingInformation(0, FALSE)
    \/ ReceiveBillingInformation
    \/ last_pay.n = 0 /\ PayBill

SpecRace == InitRace /\ [][NextRace]_vars

\* a customer that chooses which of the meter's records it presents, up to
\* two bills
MaxRowChoiceBills == 2

NextRowChoice ==
    \/ \E rd \in HarnessReadings :
           readings < MaxDishonestReadings /\ Consume(rd.cons, rd.hour, rd.a)
    \/ \E k \in RowChoiceKinds, i \in 1 .. MaxDishonestReadings :
           last_pay.bills < MaxRowChoiceBills /\ DishonestSend(k, i, 0)
    \/ ReceiveBillingInformation

SpecRowChoice == Init /\ [][NextRowChoice]_vars

\* the meter channel with records whose first line was altered on the way,
\* and the one bill the customer makes of them
MaxAlteredRecords == 2

AlteredRecords == Len(consumption_table) + Len(lan_log)

NextAltered ==
    \/ \E rd \in ForgeReadings :
           /\ last_send.status = "none" /\ AlteredRecords < MaxAlteredRecords
           /\ MeterConsume(rd.cons, rd.hour, rd.a)
    \/ \E rd \in ForgeReadings, k \in ToupleKinds :
           /\ last_send.status = "none" /\ AlteredRecords < MaxAlteredRecords
           /\ LanInject(rd.cons, rd.hour, rd.a, k)
    \/ ReadMeterMessages
    \/ last_send.status = "none" /\ SendBillingInformation(0, FALSE)
    \/ ReceiveBillingInformation

SpecAltered == Init /\ [][NextAltered]_vars

\* the price channel between a provider and a customer whose clocks may
\* differ: the provider's clock is right, or ahead by a second
ClockSkews == {0, 1}

NextClock ==
    \/ \E skew \in ClockSkews : ChangePricesAt(PeakPrices, "full", now + skew)
    \/ \E d \in TimeSteps : Tick(d)
    \/ ReadProviderMessages

SpecClock == Init /\ [][NextClock]_vars

\* the byte sequences of the round-trip test: the smallest and the largest
\* byte, the byte of the separator itself and one of three digits, in
\* sequences of every length up to MaxBytes
MaxBytes == 3
TestBytes == {0, 32, 100, U8_MAX}

RECURSIVE SeqsUpTo(_, _)
SeqsUpTo(S, n) ==
    IF n = 0 THEN { << >> }
    ELSE SeqsUpTo(S, n - 1)
             \cup { Append(q, b) : q \in { r \in SeqsUpTo(S, n - 1) : Len(r) = n - 1 },
                                   b \in S }

InitCodec ==
    /\ InitParties
    /\ overflow_checks
    /\ provider_prices = InitialPrices
    /\ codec \in { CodecInput(test_vec) : test_vec \in SeqsUpTo(TestBytes, MaxBytes) }

NextCodec == TestStringify

SpecCodec == InitCodec /\ [][NextCodec]_vars

(***************************************************************************)
(* C31: in SignOnMeter.consume a validly signed price update with a price  *)
(* below zero is fatal: the meter panics, the table it holds is not        *)
(* replaced by that update (it holds no negative price, before or after),  *)
(* and the running total is what it was before that consume.               *)
(***************************************************************************)
HasNegativePrice(prices) == \E h \in Hours : prices[h] < 0

NegativeUpdateBuffered ==
    \E i \in 1 .. Len(som_log.blobs) : HasNegativePrice(som_log.blobs[i].prices)

SomConsumeStep ==
    \/ som_log'.consumed # som_log.consumed
    \/ ("som_meter" \in panicked' /\ "som_meter" \notin panicked)

C31_SomNegativePriceFatal ==
    /\ [](~HasNegativePrice(meter_prices))
    /\ [][(NegativeUpdateBuffered /\ SomConsumeStep)
            => /\ "som_meter" \in panicked'
               /\ som_log'.consumed = som_log.consumed
               /\ meter_running_total' = meter_running_total
               /\ ~HasNegativePrice(meter_prices')]_vars

\* a consume read a valid update and then one with a negative price: it
\* installed the first and panicked on the second, after an earlier consume
\* had added to the running total
C31_Witness ==
    /\ som_log.read = "panic_negative"
    /\ "som_meter" \in panicked
    /\ Len(som_log.blobs) = 2
    /\ ~HasNegativePrice(som_log.blobs[1].prices)
    /\ HasNegativePrice(som_log.blobs[2].prices)
    /\ meter_prices = som_log.blobs[1].prices
    /\ som_log.consumed = 1
    /\ meter_running_total > 0

(***************************************************************************)
(* C32: the customer bills with the table it holds when it sends and the   *)
(* provider verifies with the table it holds when it receives.  An honest  *)
(* proof is rejected when the two tables differ in the price of an hour of *)
(* a ledger row with non-zero consumption, and it is accepted only when    *)
(* both tables give the ledger rows the same weighted totals.              *)
(***************************************************************************)
RECURSIVE SentBlind(_, _)
SentBlind(rows, prices) ==
    IF Len(rows) = 0 THEN 0
    ELSE Head(rows).a * prices[Head(rows).hour] + SentBlind(Tail(rows), prices)

\* the provider holds another price than the customer billed with, for the
\* hour of a row that consumed
StalePriceBilled ==
    \E i \in 1 .. Len(recv.proof.rows) :
        /\ recv.proof.rows[i].cons # 0
        /\ recv.prices[recv.proof.rows[i].hour]
               # recv.proof.prices[recv.proof.rows[i].hour]

SameWeightedTotals ==
    /\ SentSum(recv.proof.rows, recv.prices)
           = SentSum(recv.proof.rows, recv.proof.prices)
    /\ SentBlind(recv.proof.rows, recv.prices) % PARAMS_0
           = SentBlind(recv.proof.rows, recv.proof.prices) % PARAMS_0

C32_StaleTableRejected ==
    (recv.status # "none" /\ recv.proof.kind = "honest")
        => /\ StalePriceBilled => recv.status = "panic_mismatch"
           /\ recv.status = "accepted" => SameWeightedTotals

\* the provider changed to a table that bills the two readings together as
\* the customer's table does, the customer sent without reading the update,
\* and the proof was rejected
C32_Witness ==
    /\ recv.status = "panic_mismatch"
    /\ recv.proof.kind = "honest"
    /\ Len(recv.proof.rows) = 2
    /\ recv.proof.prices = InitialPrices
    /\ recv.prices = CompensatedPrices
    /\ SentSum(recv.proof.rows, recv.prices)
           = SentSum(recv.proof.rows, recv.proof.prices)
    /\ "provider" \in panicked

(***************************************************************************)
(* C33: send_billing_information bills every row of the ledger at the      *)
(* table the customer holds when it runs, whatever table the customer held *)
(* when the row was recorded: an update read between two readings prices   *)
(* the earlier reading as well.                                            *)
(***************************************************************************)
C33_BilledAtSendTimeTable ==
    last_send.status = "ok"
        => /\ last_send.bill = ExactBill(last_send.ledger, last_send.prices)
           /\ FromStrRadix(LinesOf(last_send.written)[1], 10, I64_MIN, I64_MAX, TRUE).val
                  = last_send.bill

\* the customer read an update when its ledger held one row, recorded a
\* second row, and sent: the first row is billed at the new price, which
\* is not the price held when it was recorded
C33_Witness ==
    /\ last_send.status = "ok"
    /\ Len(last_send.ledger) = 2
    /\ last_prices.status = "ok"
    /\ last_prices.rows = 1
    /\ last_prices.after # last_prices.before
    /\ last_send.prices = last_prices.after
    /\ last_prices.after[last_send.ledger[1].other]
           # last_prices.before[last_send.ledger[1].other]
    /\ last_send.bill
           # last_send.ledger[1].cons * last_prices.before[last_send.ledger[1].other]
               + last_send.ledger[2].cons * last_prices.after[last_send.ledger[2].other]

(***************************************************************************)
(* C34: the provider accepts a proof on the rows presented in it alone and *)
(* remembers no row: a proof whose totals agree with a strict subset of    *)
(* the meter's records, or with a record presented again after an earlier  *)
(* bill that held it was accepted, or with a record presented twice in one *)
(* proof, is accepted and its bill is added to bill_total.                 *)
(***************************************************************************)
\* the sum of the rows a proof presents, at the provider's prices
PresentedSum ==
    SentSum(SentTable(recv.proof.kind, recv.proof.rows, recv.proof.row, 0),
            recv.prices)

\* (the sums are taken where the 64-bit accumulators hold them)
C34_AcceptsOnPresentedRowsAlone ==
    (/\ recv.proof.kind \in RowChoiceKinds
     /\ recv.length >= 1
     /\ recv.proof.prices = recv.prices
     /\ InI64(PresentedSum)
     /\ InI64(recv.before + PresentedSum))
        => /\ recv.status = "accepted"
           /\ recv.bill = PresentedSum
           /\ recv.after = recv.before + recv.bill

\* the meter signed two records; a bill for both was accepted and the
\* ledger kept; then a proof presenting the first record twice and leaving
\* the second out was accepted as well, so that the provider is owed the
\* first record three times
C34_Witness ==
    /\ recv.status = "accepted"
    /\ recv.proof.kind = "double"
    /\ recv.proof.row = 1
    /\ readings = 2
    /\ Len(recv.proof.rows) = 2
    /\ recv.length = 2
    /\ recv.commitments[1] = recv.commitments[2]
    /\ recv.bill > 0
    /\ last_pay.bills = 2
    /\ last_pay.due
           = recv.bill + SentSum(recv.proof.rows, recv.prices)
    /\ bill_total = last_pay.due

(***************************************************************************)
(* C35: customer_read_consumption appends a row when the signature line    *)
(* verifies under the meter's key, the signed payload and the first line   *)
(* have two tokens each and the tokens parse (units as a decimal i32, hour *)
(* as a u8, blinding factor as hexadecimal); a first line of two tokens    *)
(* that do not parse is fatal.  It never checks that the first line opens  *)
(* the signed commitment: a record whose unsigned first line was altered   *)
(* is appended as it came and billed, and the provider rejects the proof   *)
(* when the altered row has a price that is not zero.                      *)
(***************************************************************************)
PayloadOfLine(line) ==
    LET Of(sig) == SubSeq(sig.val, SIGNATUREBYTES + 1, Len(sig.val))
    IN  Of(unstringify_bytes(line))

\* the record read last had a signature of the meter, two tokens in the
\* payload and two tokens in the first line
TwoTokenRecordRead ==
    /\ last_read.status # "none"
    /\ last_read.buffered >= 1
    /\ SignatureVerifies(last_read.signature)
    /\ Len(split_whitespace(PayloadOfLine(last_read.signature))) = 2
    /\ Len(split_whitespace(last_read.touple)) = 2

ToupleCons == FromStrRadix(split_whitespace(last_read.touple)[1], 10,
                           I32_MIN, I32_MAX, TRUE)
ToupleA == MpzFromStrRadix(split_whitespace(last_read.touple)[2], 16)
PayloadHour ==
    FromStrRadix(split_whitespace(PayloadOfLine(last_read.signature))[2], 10,
                 0, U8_MAX, FALSE)

\* the statement without the parsing of the tokens
C35_TwoTokensSuffice ==
    TwoTokenRecordRead => (last_read.status = "ok" /\ last_read.appended = 1)

\* rows of the proof received last that do not open their commitment and
\* are weighted with a price that is not zero
AlteredRowsPriced ==
    { i \in 1 .. Len(recv.proof.rows) :
        /\ i <= Len(recv.commitments)
        /\ from_opening(recv.proof.rows[i].cons, recv.proof.rows[i].a)
               # recv.commitments[i]
        /\ recv.prices[recv.proof.rows[i].hour] # 0 }

C35_ParsedRecordAppendedUnchecked ==
    /\ TwoTokenRecordRead
           => IF ToupleCons.ok /\ ToupleA.ok /\ PayloadHour.ok
              THEN last_read.status = "ok" /\ last_read.appended = 1
              ELSE last_read.status = "panic" /\ last_read.appended = 0
    /\ (/\ TwoTokenRecordRead
        /\ last_read.status = "ok"
        /\ Len(consumption_table) = last_read.rows_before + 1)
           => /\ consumption_table[Len(consumption_table)].signed_commitment
                      = last_read.signature
              /\ consumption_table[Len(consumption_table)].cons = ToupleCons.val
              /\ consumption_table[Len(consumption_table)].other = PayloadHour.val
              /\ consumption_table[Len(consumption_table)].a = ToupleA.val
    /\ (/\ recv.proof.kind = "honest"
        /\ recv.proof.prices = recv.prices
        /\ \A h \in Hours : recv.prices[h] >= 0
        /\ AlteredRowsPriced # {})
           => recv.status = "panic_mismatch"

\* a record with an altered first line was read and filed, the customer
\* billed it and sent its proof without failing, and the provider rejected
\* the proof
C35_Witness ==
    /\ recv.status = "panic_mismatch"
    /\ recv.proof.kind = "honest"
    /\ AlteredRowsPriced # {}
    /\ last_send.status = "ok"
    /\ last_read.status = "ok"
    /\ "customer" \notin panicked
    /\ "provider" \in panicked

(***************************************************************************)
(* C36: check_for_new_prices installs a verified update exactly when its   *)
(* timestamp is not later than the receiver's clock and its age in whole   *)
(* seconds is at most 2 * 31 * 24 * 60 * 60 = 5356800: an age of exactly   *)
(* 5356800 seconds is accepted, one second more is not, and a timestamp    *)
(* ahead of the receiver's clock is fatal.                                 *)
(***************************************************************************)
OneUpdateRead ==
    /\ last_prices.status # "none"
    /\ Len(last_prices.buffered) = 1
    /\ last_prices.buffered[1].complete

UpdateAge == last_prices.at - last_prices.buffered[1].time

C36_InstalledWithinWindow ==
    OneUpdateRead
        => /\ last_prices.status = "ok" <=> (0 <= UpdateAge /\ UpdateAge <= 5356800)
           /\ last_prices.status = "ok"
                  => last_prices.after = last_prices.buffered[1].prices
           /\ UpdateAge < 0
                  => /\ last_prices.status = "panic"
                     /\ last_prices.after = last_prices.before
                     /\ "customer" \in panicked

\* an update that is exactly 5356800 seconds old when it is read is installed
C36_Witness ==
    /\ OneUpdateRead
    /\ UpdateAge = 5356800
    /\ last_prices.status = "ok"
    /\ last_prices.after = last_prices.buffered[1].prices
    /\ last_prices.after # last_prices.before
    /\ customer_prices = last_prices.after

(***************************************************************************)
(* C37: the operations have disjoint effects.  read_provider_messages      *)
(* never changes the ledger; read_meter_messages and                       *)
(* send_billing_information never change the table the customer holds;     *)
(* pay_bill and receive_billing_information never change the provider's    *)
(* table.                                                                  *)
(***************************************************************************)
ReadProviderStep == last_prices' # last_prices \/ Len(wan_down') < Len(wan_down)
ReadMeterStep == last_read' # last_read \/ Len(lan') < Len(lan)
SendStep == last_send' # last_send \/ Len(wan_up') > Len(wan_up)
ProviderBillStep ==
    recv' # recv \/ last_pay' # last_pay \/ bill_total' # bill_total
        \/ Len(wan_up') < Len(wan_up)

C37_DisjointEffects ==
    [][/\ ReadProviderStep => consumption_table' = consumption_table
       /\ ReadMeterStep => customer_prices' = customer_prices
       /\ SendStep => customer_prices' = customer_prices
       /\ ProviderBillStep => provider_prices' = provider_prices]_vars

\* each of the five operations has run: the customer read an update and
\* two records, billed them at the new table and the provider, which holds
\* that table, accepted the bill and was paid
C37_Witness ==
    /\ last_prices.status = "ok"
    /\ last_prices.after # last_prices.before
    /\ last_read.status = "ok"
    /\ last_send.status = "ok"
    /\ Len(last_send.ledger) = 2
    /\ last_send.prices = last_prices.after
    /\ customer_prices = last_prices.after
    /\ recv.status = "accepted"
    /\ last_pay.n = 1
    /\ last_pay.ret = recv.bill
    /\ provider_prices = customer_prices
    /\ provider_prices # InitialPrices

\* C38: all the calls of read_or_gen_params on one path return the same
\* parameters, in every interleaving of the calls, with or without a file
\* at the start and whether or not the generated parameters can be written.
C38_AllRolesSameParams ==
    \A i, j \in 1 .. Len(dhparams.returned) :
        dhparams.returned[i] = dhparams.returned[j]

\* C39: for every byte sequence b, unstringify_bytes(stringify_bytes(b)) = b:
\* the decimal numbers separated by spaces read back as the bytes they were
\* written from, bytes of value 0 and the empty sequence included.
C39_StringifyRoundTrip ==
    codec.stage = "done" => (codec.back.ok /\ codec.back.val = codec.bytes)

\* a sequence with a 0 in the middle and the largest byte at the end went
\* through both functions
C39_Witness ==
    /\ codec.stage = "done"
    /\ codec.bytes = << 100, 0, U8_MAX >>
    /\ Len(codec.string) = 10
    /\ codec.back.val = codec.bytes

====
